---- MODULE Spec2Model ----
(***************************************************************************)
(* Model of the tile painter of src/src/components/TilePainter.tsx: the    *)
(* sparse grid of painted tiles, the shape tools, the border resolver, the *)
(* noise roll and the snapshot history with undo and redo.                 *)
(*                                                                         *)
(* One action stands for one React event handler.  A handler reads the     *)
(* state of the render it was created in (the unprimed variables) and      *)
(* queues its updates; React applies the queued updates before the next    *)
(* event is dispatched (the primed variables).  A value read from the      *)
(* component state after an update was queued in the same handler is       *)
(* therefore still the old value.                                          *)
(*                                                                         *)
(* Coordinates are tile coordinates; a key "x,y" is the tuple <<x, y>>.    *)
(* undefined / null are modelled by Undefined (ids) and Null (positions,   *)
(* noiseIds).  historyIndex is 0-based as in the source; the sequence      *)
(* history is 1-based, so history[i] of the source is At(history, i).      *)
(***************************************************************************)
EXTENDS Integers, Sequences, FiniteSets

\* Bounds of the model: the width of the grid the painter starts with, and
\* the longest history a handler may build.
GridWidth == 2
MaxHistory == 3

\* Longest border rule list drawn for the resolver.
RuleLen == 2

\* Side of the square grid on which the shape tools are explored; flood
\* fill is explored on one of side BoardSize - 1.
BoardSize == 3

VARIABLES config, gridConfig, paintedTiles, selectedMaterial, isPainting,
          isErasing, currentTool, drawingStart, previewTiles, history,
          historyIndex, sharedAt, gestureStart

vars == <<config, gridConfig, paintedTiles, selectedMaterial, isPainting,
          isErasing, currentTool, drawingStart, previewTiles, history,
          historyIndex, sharedAt, gestureStart>>

Undefined == "undefined"
Null == <<>>

PaintingTool == {"brush", "rectangle", "circle", "fill"}

\* ---------------------------------------------------------------------
\* Tileset configurations (the config prop).

\* One material, no noise, no border rules.
CfgPlain ==
  [id |-> "plain",
   materials |-> << [id |-> "grass", noiseProbability |-> 0] >>,
   borders |-> << >>,
   noise |-> << >>]

\* Two materials, one border rule of grass against water to its east, one
\* noise tile per material; water never rolls noise (probability 0).
CfgTerrain ==
  [id |-> "terrain",
   materials |-> << [id |-> "grass", noiseProbability |-> 50],
                    [id |-> "water", noiseProbability |-> 0] >>,
   borders |-> << [id |-> "E1", directions |-> "e",
                   materialA |-> "grass", materialB |-> "water"] >>,
   noise |-> << [id |-> "flower", baseMaterial |-> "grass"],
                [id |-> "wave", baseMaterial |-> "water"] >>]

\* ---------------------------------------------------------------------
\* Small helpers.

Min(a, b) == IF a < b THEN a ELSE b
Max(a, b) == IF a > b THEN a ELSE b

\* history[i] of the source (0-based index).
At(h, i) == h[i + 1]

\* Array.prototype.slice(0, n) for 0 <= n.
Slice(h, n) == SubSeq(h, 1, Min(n, Len(h)))

\* new Map(): the empty grid.
EmptyMap == << >>

\* Map.prototype.delete for a set of keys.
MapDelete(m, keys) == [k \in (DOMAIN m) \ keys |-> m[k]]

\* Map.prototype.set for a function of new entries.
MapSetAll(m, entries) ==
  [k \in (DOMAIN m) \cup (DOMAIN entries) |->
     IF k \in DOMAIN entries THEN entries[k] ELSE m[k]]

InBounds(x, y, gc) == x >= 0 /\ x < gc.width /\ y >= 0 /\ y < gc.height

\* ---------------------------------------------------------------------
\* Pointer position and shape rasterisation.

\* getTilePosition without the bounds test.
getTilePositionUnbounded(pos, gc) == pos

\* getTilePosition: pos is the floored tile coordinate under the pointer;
\* the result is null when it lies outside the grid.
getTilePosition(pos, gc) ==
  IF InBounds(pos[1], pos[2], gc) THEN pos ELSE Null

\* getAdjacentPositions with the eastern neighbour two columns away.
getAdjacentPositionsFarEast(x, y) ==
  [n  |-> <<x, y - 1>>,
   ne |-> <<x + 1, y - 1>>,
   e  |-> <<x + 2, y>>,
   se |-> <<x + 1, y + 1>>,
   s  |-> <<x, y + 1>>,
   sw |-> <<x - 1, y + 1>>,
   w  |-> <<x - 1, y>>,
   nw |-> <<x - 1, y - 1>>]

getAdjacentPositions(x, y) ==
  [n  |-> <<x, y - 1>>,
   ne |-> <<x + 1, y - 1>>,
   e  |-> <<x + 1, y>>,
   se |-> <<x + 1, y + 1>>,
   s  |-> <<x, y + 1>>,
   sw |-> <<x - 1, y + 1>>,
   w  |-> <<x - 1, y>>,
   nw |-> <<x - 1, y - 1>>]

\* The keys two nested loops push, x from minX to maxX outside and y from
\* minY to maxY inside, in the order pushed and without the bounds test.
LoopKeys(minX, maxX, minY, maxY) ==
  LET columns == Max(maxX - minX + 1, 0)
      rows == Max(maxY - minY + 1, 0)
  IN  [i \in 1 .. (columns * rows) |->
         <<minX + ((i - 1) \div rows), minY + ((i - 1) % rows)>>]

\* getRectangleTiles that loops from start to end without Math.min and
\* Math.max.
getRectangleTilesForward(start, end, gc) ==
  SelectSeq(LoopKeys(start[1], end[1], start[2], end[2]),
            LAMBDA k : InBounds(k[1], k[2], gc))

\* getRectangleTiles: the array of keys pushed by the two nested loops.
getRectangleTiles(start, end, gc) ==
  LET minX == Min(start[1], end[1])
      maxX == Max(start[1], end[1])
      minY == Min(start[2], end[2])
      maxY == Max(start[2], end[2])
  IN  SelectSeq(LoopKeys(minX, maxX, minY, maxY),
                LAMBDA k : InBounds(k[1], k[2], gc))

\* new Set(array)
SeqToSet(q) == {q[i] : i \in DOMAIN q}

\* Math.round(Math.sqrt(n)) for an integer n >= 0: the r with
\* r - 1/2 <= sqrt(n) < r + 1/2.
RoundSqrt(n) ==
  IF n = 0 THEN 0
  ELSE CHOOSE r \in 1 .. n :
         (2 * r - 1) * (2 * r - 1) <= 4 * n /\ 4 * n < (2 * r + 1) * (2 * r + 1)

\* getCircleTiles with the distance compared against the radius itself
\* instead of the rounded radius.
getCircleTilesUnrounded(center, radiusSq, gc) ==
  LET intRadius == RoundSqrt(radiusSq)
  IN  SelectSeq(LoopKeys(center[1] - intRadius, center[1] + intRadius,
                         center[2] - intRadius, center[2] + intRadius),
                LAMBDA k :
                  /\ (k[1] - center[1]) * (k[1] - center[1])
                       + (k[2] - center[2]) * (k[2] - center[2]) <= radiusSq
                  /\ InBounds(k[1], k[2], gc))

\* getCircleTiles(center, radius) where radius = Math.sqrt(radiusSq), as
\* handleMouseMove computes it: the array of keys pushed by the two nested
\* loops.  distance <= intRadius is compared on the squares.
getCircleTiles(center, radiusSq, gc) ==
  LET intRadius == RoundSqrt(radiusSq)
  IN  SelectSeq(LoopKeys(center[1] - intRadius, center[1] + intRadius,
                         center[2] - intRadius, center[2] + intRadius),
                LAMBDA k :
                  /\ (k[1] - center[1]) * (k[1] - center[1])
                       + (k[2] - center[2]) * (k[2] - center[2])
                         <= intRadius * intRadius
                  /\ InBounds(k[1], k[2], gc))

\* startTile?.materialId || null
MaterialAt(tiles, key) ==
  IF key \in DOMAIN tiles THEN tiles[key].materialId ELSE Undefined

\* FloodLoop that also queues the four diagonal neighbours.
RECURSIVE FloodLoopDiagonal(_, _, _, _, _, _)
FloodLoopDiagonal(queue, visited, tilesToFill, targetMaterial, tiles, gc) ==
  IF queue = << >> THEN tilesToFill
  ELSE
    LET current == Head(queue)
        rest == Tail(queue)
    IN  IF current \in visited
          THEN FloodLoopDiagonal(rest, visited, tilesToFill, targetMaterial, tiles, gc)
        ELSE IF ~InBounds(current[1], current[2], gc)
          THEN FloodLoopDiagonal(rest, visited, tilesToFill, targetMaterial, tiles, gc)
        ELSE
          LET visited2 == visited \cup {current}
              adjacent == << <<current[1] + 1, current[2]>>,
                             <<current[1] - 1, current[2]>>,
                             <<current[1], current[2] + 1>>,
                             <<current[1], current[2] - 1>>,
                             <<current[1] + 1, current[2] + 1>>,
                             <<current[1] - 1, current[2] - 1>>,
                             <<current[1] + 1, current[2] - 1>>,
                             <<current[1] - 1, current[2] + 1>> >>
              pushed == SelectSeq(adjacent, LAMBDA pos : pos \notin visited2)
          IN  IF MaterialAt(tiles, current) = targetMaterial
                THEN FloodLoopDiagonal(rest \o pushed, visited2,
                               Append(tilesToFill, current),
                               targetMaterial, tiles, gc)
                ELSE FloodLoopDiagonal(rest, visited2, tilesToFill,
                               targetMaterial, tiles, gc)

\* The while loop of getFloodFillTiles: one iteration per call.
RECURSIVE FloodLoop(_, _, _, _, _, _)
FloodLoop(queue, visited, tilesToFill, targetMaterial, tiles, gc) ==
  IF queue = << >> THEN tilesToFill
  ELSE
    LET current == Head(queue)
        rest == Tail(queue)
    IN  IF current \in visited
          THEN FloodLoop(rest, visited, tilesToFill, targetMaterial, tiles, gc)
        ELSE IF ~InBounds(current[1], current[2], gc)
          THEN FloodLoop(rest, visited, tilesToFill, targetMaterial, tiles, gc)
        ELSE
          LET visited2 == visited \cup {current}
              adjacent == << <<current[1] + 1, current[2]>>,
                             <<current[1] - 1, current[2]>>,
                             <<current[1], current[2] + 1>>,
                             <<current[1], current[2] - 1>> >>
              pushed == SelectSeq(adjacent, LAMBDA pos : pos \notin visited2)
          IN  IF MaterialAt(tiles, current) = targetMaterial
                THEN FloodLoop(rest \o pushed, visited2,
                               Append(tilesToFill, current),
                               targetMaterial, tiles, gc)
                ELSE FloodLoop(rest, visited2, tilesToFill,
                               targetMaterial, tiles, gc)

\* FloodTrace without the test visited.has(key) on the dequeued coordinate.
RECURSIVE FloodTraceNoRecheck(_, _, _, _, _, _)
FloodTraceNoRecheck(queue, marked, iterations, targetMaterial, tiles, gc) ==
  IF queue = << >> THEN [marked |-> marked, iterations |-> iterations]
  ELSE
    LET current == Head(queue)
        rest == Tail(queue)
    IN  IF ~InBounds(current[1], current[2], gc)
          THEN FloodTraceNoRecheck(rest, marked, iterations + 1, targetMaterial, tiles, gc)
        ELSE
          LET marked2 == Append(marked, current)
              adjacent == << <<current[1] + 1, current[2]>>,
                             <<current[1] - 1, current[2]>>,
                             <<current[1], current[2] + 1>>,
                             <<current[1], current[2] - 1>> >>
              pushed == SelectSeq(adjacent, LAMBDA pos : pos \notin SeqToSet(marked2))
          IN  IF MaterialAt(tiles, current) = targetMaterial
                THEN FloodTraceNoRecheck(rest \o pushed, marked2, iterations + 1,
                            targetMaterial, tiles, gc)
                ELSE FloodTraceNoRecheck(rest, marked2, iterations + 1, targetMaterial, tiles, gc)

\* The while loop of getFloodFillTiles observed: marked lists the
\* coordinates in the order visited.add(key) ran, iterations counts the
\* passes through the loop body until the queue is empty.
RECURSIVE FloodTrace(_, _, _, _, _, _)
FloodTrace(queue, marked, iterations, targetMaterial, tiles, gc) ==
  IF queue = << >> THEN [marked |-> marked, iterations |-> iterations]
  ELSE
    LET current == Head(queue)
        rest == Tail(queue)
    IN  IF current \in SeqToSet(marked)
          THEN FloodTrace(rest, marked, iterations + 1, targetMaterial, tiles, gc)
        ELSE IF ~InBounds(current[1], current[2], gc)
          THEN FloodTrace(rest, marked, iterations + 1, targetMaterial, tiles, gc)
        ELSE
          LET marked2 == Append(marked, current)
              adjacent == << <<current[1] + 1, current[2]>>,
                             <<current[1] - 1, current[2]>>,
                             <<current[1], current[2] + 1>>,
                             <<current[1], current[2] - 1>> >>
              pushed == SelectSeq(adjacent, LAMBDA pos : pos \notin SeqToSet(marked2))
          IN  IF MaterialAt(tiles, current) = targetMaterial
                THEN FloodTrace(rest \o pushed, marked2, iterations + 1,
                            targetMaterial, tiles, gc)
                ELSE FloodTrace(rest, marked2, iterations + 1, targetMaterial, tiles, gc)

\* getFloodFillTiles: the array tilesToFill.
getFloodFillTiles(startX, startY, tiles, gc) ==
  FloodLoop(<< <<startX, startY>> >>, {}, << >>,
            MaterialAt(tiles, <<startX, startY>>), tiles, gc)

\* ---------------------------------------------------------------------
\* Border resolution.

Cardinals == {"n", "e", "s", "w"}
Diagonals == {"ne", "se", "sw", "nw"}
Inwards == {"inward-ne", "inward-se", "inward-sw", "inward-nw"}

\* matchesBorderPattern with the cardinal patterns tested on their own
\* neighbour only, whatever the orthogonal count.
matchesBorderPatternAnyCount(surroundings, primaryMaterial, borderMaterial, borderType) ==
  LET orthogonalBorderCount ==
        Cardinality({dir \in Cardinals : surroundings[dir] = borderMaterial})
  IN  IF borderType \in Cardinals
        THEN surroundings[borderType] = borderMaterial
      ELSE IF borderType \in Diagonals
        THEN IF orthogonalBorderCount = 1
               THEN surroundings[borderType] = borderMaterial
             ELSE IF orthogonalBorderCount = 0
               THEN surroundings[borderType] = borderMaterial
             ELSE FALSE
      ELSE IF borderType \in Inwards
        THEN IF orthogonalBorderCount >= 2
               THEN CASE borderType = "inward-ne" ->
                           /\ surroundings.n = borderMaterial
                           /\ surroundings.e = borderMaterial
                           /\ surroundings.ne = borderMaterial
                      [] borderType = "inward-se" ->
                           /\ surroundings.s = borderMaterial
                           /\ surroundings.e = borderMaterial
                           /\ surroundings.se = borderMaterial
                      [] borderType = "inward-sw" ->
                           /\ surroundings.n = borderMaterial
                           /\ surroundings.w = borderMaterial
                           /\ surroundings.nw = borderMaterial
                      [] borderType = "inward-nw" ->
                           /\ surroundings.s = borderMaterial
                           /\ surroundings.w = borderMaterial
                           /\ surroundings.sw = borderMaterial
               ELSE FALSE
      ELSE FALSE

\* matchesBorderPattern with the diagonal corners tested on their diagonal
\* neighbour only, whatever the orthogonal count.
matchesBorderPatternCrowdedCorner(surroundings, primaryMaterial, borderMaterial, borderType) ==
  LET orthogonalBorderCount ==
        Cardinality({dir \in Cardinals : surroundings[dir] = borderMaterial})
  IN  IF borderType \in Cardinals
        THEN orthogonalBorderCount = 1 /\ surroundings[borderType] = borderMaterial
      ELSE IF borderType \in Diagonals
        THEN surroundings[borderType] = borderMaterial
      ELSE IF borderType \in Inwards
        THEN IF orthogonalBorderCount >= 2
               THEN CASE borderType = "inward-ne" ->
                           /\ surroundings.n = borderMaterial
                           /\ surroundings.e = borderMaterial
                           /\ surroundings.ne = borderMaterial
                      [] borderType = "inward-se" ->
                           /\ surroundings.s = borderMaterial
                           /\ surroundings.e = borderMaterial
                           /\ surroundings.se = borderMaterial
                      [] borderType = "inward-sw" ->
                           /\ surroundings.n = borderMaterial
                           /\ surroundings.w = borderMaterial
                           /\ surroundings.nw = borderMaterial
                      [] borderType = "inward-nw" ->
                           /\ surroundings.s = borderMaterial
                           /\ surroundings.w = borderMaterial
                           /\ surroundings.sw = borderMaterial
               ELSE FALSE
      ELSE FALSE

\* matchesBorderPattern with inward-sw tested on S, W, SW and inward-nw on
\* N, W, NW.
matchesBorderPatternUnswapped(surroundings, primaryMaterial, borderMaterial, borderType) ==
  LET orthogonalBorderCount ==
        Cardinality({dir \in Cardinals : surroundings[dir] = borderMaterial})
  IN  IF borderType \in Cardinals
        THEN orthogonalBorderCount = 1 /\ surroundings[borderType] = borderMaterial
      ELSE IF borderType \in Diagonals
        THEN IF orthogonalBorderCount = 1
               THEN surroundings[borderType] = borderMaterial
             ELSE IF orthogonalBorderCount = 0
               THEN surroundings[borderType] = borderMaterial
             ELSE FALSE
      ELSE IF borderType \in Inwards
        THEN IF orthogonalBorderCount >= 2
               THEN CASE borderType = "inward-ne" ->
                           /\ surroundings.n = borderMaterial
                           /\ surroundings.e = borderMaterial
                           /\ surroundings.ne = borderMaterial
                      [] borderType = "inward-se" ->
                           /\ surroundings.s = borderMaterial
                           /\ surroundings.e = borderMaterial
                           /\ surroundings.se = borderMaterial
                      [] borderType = "inward-sw" ->
                           /\ surroundings.s = borderMaterial
                           /\ surroundings.w = borderMaterial
                           /\ surroundings.sw = borderMaterial
                      [] borderType = "inward-nw" ->
                           /\ surroundings.n = borderMaterial
                           /\ surroundings.w = borderMaterial
                           /\ surroundings.nw = borderMaterial
               ELSE FALSE
      ELSE FALSE

\* matchesBorderPattern with the inward corners tested on their diagonal
\* neighbour only.
matchesBorderPatternDiagonalOnly(surroundings, primaryMaterial, borderMaterial, borderType) ==
  LET orthogonalBorderCount ==
        Cardinality({dir \in Cardinals : surroundings[dir] = borderMaterial})
  IN  IF borderType \in Cardinals
        THEN orthogonalBorderCount = 1 /\ surroundings[borderType] = borderMaterial
      ELSE IF borderType \in Diagonals
        THEN IF orthogonalBorderCount = 1
               THEN surroundings[borderType] = borderMaterial
             ELSE IF orthogonalBorderCount = 0
               THEN surroundings[borderType] = borderMaterial
             ELSE FALSE
      ELSE IF borderType \in Inwards
        THEN CASE borderType = "inward-ne" -> surroundings.ne = borderMaterial
               [] borderType = "inward-se" -> surroundings.se = borderMaterial
               [] borderType = "inward-sw" -> surroundings.nw = borderMaterial
               [] borderType = "inward-nw" -> surroundings.sw = borderMaterial
      ELSE FALSE

\* matchesBorderPattern of the source.
matchesBorderPattern(surroundings, primaryMaterial, borderMaterial, borderType) ==
  LET orthogonalBorderCount ==
        Cardinality({dir \in Cardinals : surroundings[dir] = borderMaterial})
  IN  IF borderType \in Cardinals
        THEN orthogonalBorderCount = 1 /\ surroundings[borderType] = borderMaterial
      ELSE IF borderType \in Diagonals
        THEN IF orthogonalBorderCount = 1
               THEN surroundings[borderType] = borderMaterial
             ELSE IF orthogonalBorderCount = 0
               THEN surroundings[borderType] = borderMaterial
             ELSE FALSE
      ELSE IF borderType \in Inwards
        THEN IF orthogonalBorderCount >= 2
               THEN CASE borderType = "inward-ne" ->
                           /\ surroundings.n = borderMaterial
                           /\ surroundings.e = borderMaterial
                           /\ surroundings.ne = borderMaterial
                      [] borderType = "inward-se" ->
                           /\ surroundings.s = borderMaterial
                           /\ surroundings.e = borderMaterial
                           /\ surroundings.se = borderMaterial
                      [] borderType = "inward-sw" ->
                           /\ surroundings.n = borderMaterial
                           /\ surroundings.w = borderMaterial
                           /\ surroundings.nw = borderMaterial
                      [] borderType = "inward-nw" ->
                           /\ surroundings.s = borderMaterial
                           /\ surroundings.w = borderMaterial
                           /\ surroundings.sw = borderMaterial
               ELSE FALSE
      ELSE FALSE

\* BorderPriority with the two length tests exchanged.
BorderPriorityDiagonalFirst(directions) ==
  IF directions \in Inwards THEN 3
  ELSE IF directions \in Diagonals THEN 4
  ELSE IF directions \in Cardinals THEN 2
  ELSE 1

\* The priority assigned inside the loop over config.borders.
BorderPriority(directions) ==
  IF directions \in Inwards THEN 3
  ELSE IF directions \in Cardinals THEN 4
  ELSE IF directions \in Diagonals THEN 2
  ELSE 1

\* BestBorder where a later rule of equal priority replaces the best one.
RECURSIVE BestBorderLastWins(_, _, _, _, _, _)
BestBorderLastWins(borders, i, tile, surroundings, best, highestPriority) ==
  IF i > Len(borders) THEN best
  ELSE
    LET border == borders[i]
        priority == BorderPriority(border.directions)
    IN  IF /\ border.materialA = tile.materialId
           /\ matchesBorderPattern(surroundings, tile.materialId,
                                   border.materialB, border.directions)
           /\ priority >= highestPriority
          THEN BestBorderLastWins(borders, i + 1, tile, surroundings, i, priority)
          ELSE BestBorderLastWins(borders, i + 1, tile, surroundings, best, highestPriority)

\* BestBorder without the test of materialA against the tile's material.
RECURSIVE BestBorderAnyMaterial(_, _, _, _, _, _)
BestBorderAnyMaterial(borders, i, tile, surroundings, best, highestPriority) ==
  IF i > Len(borders) THEN best
  ELSE
    LET border == borders[i]
        priority == BorderPriority(border.directions)
    IN  IF /\ matchesBorderPattern(surroundings, tile.materialId,
                                   border.materialB, border.directions)
           /\ priority > highestPriority
          THEN BestBorderAnyMaterial(borders, i + 1, tile, surroundings, i, priority)
          ELSE BestBorderAnyMaterial(borders, i + 1, tile, surroundings, best, highestPriority)

\* The loop over config.borders for one tile: index of bestBorder in the
\* rule list, 0 when none matched.  A later rule replaces the best one only
\* when its priority is strictly higher.
RECURSIVE BestBorder(_, _, _, _, _, _)
BestBorder(borders, i, tile, surroundings, best, highestPriority) ==
  IF i > Len(borders) THEN best
  ELSE
    LET border == borders[i]
        priority == BorderPriority(border.directions)
    IN  IF /\ border.materialA = tile.materialId
           /\ matchesBorderPattern(surroundings, tile.materialId,
                                   border.materialB, border.directions)
           /\ priority > highestPriority
          THEN BestBorder(borders, i + 1, tile, surroundings, i, priority)
          ELSE BestBorder(borders, i + 1, tile, surroundings, best, highestPriority)

Surroundings(tilesMap, tile) ==
  LET adjacent == getAdjacentPositions(tile.x, tile.y)
  IN  [direction \in DOMAIN adjacent |->
         IF adjacent[direction] \in DOMAIN tilesMap
           THEN tilesMap[adjacent[direction]].materialId
           ELSE Undefined]

\* recalculateAllBorders that builds the updated tile without noiseIds.
recalculateAllBordersWithoutNoise(tilesMap, borders) ==
  [key \in DOMAIN tilesMap |->
     LET tile == tilesMap[key]
         best == BestBorder(borders, 1, tile, Surroundings(tilesMap, tile), 0, -1)
     IN  [x |-> tile.x,
          y |-> tile.y,
          materialId |-> tile.materialId,
          borderTileId |-> IF best = 0 THEN Undefined ELSE borders[best].id,
          noiseIds |-> Null]]

\* recalculateAllBorders that keeps a border id the tile already carries.
recalculateMissingBorders(tilesMap, borders) ==
  [key \in DOMAIN tilesMap |->
     LET tile == tilesMap[key]
         best == BestBorder(borders, 1, tile, Surroundings(tilesMap, tile), 0, -1)
     IN  [x |-> tile.x,
          y |-> tile.y,
          materialId |-> tile.materialId,
          borderTileId |-> IF tile.borderTileId # Undefined THEN tile.borderTileId
                           ELSE IF best = 0 THEN Undefined ELSE borders[best].id,
          noiseIds |-> tile.noiseIds]]

\* recalculateAllBorders: a new map with a new tile object per key.
recalculateAllBorders(tilesMap, borders) ==
  [key \in DOMAIN tilesMap |->
     LET tile == tilesMap[key]
         best == BestBorder(borders, 1, tile, Surroundings(tilesMap, tile), 0, -1)
     IN  [x |-> tile.x,
          y |-> tile.y,
          materialId |-> tile.materialId,
          borderTileId |-> IF best = 0 THEN Undefined ELSE borders[best].id,
          noiseIds |-> tile.noiseIds]]

\* ---------------------------------------------------------------------
\* Noise roll and the two paint operations.

\* Values of Math.random() * 100 the model draws.
RandomSamples == {0, 50, 99}

\* A roll is the pair of Math.random() results one painted tile may consume.
Rolls == RandomSamples \X RandomSamples
NoRoll == <<0, 0>>

\* config.materials.find((m) => m.id === selectedMaterial): index or 0.
FindMaterial(cfg, id) ==
  IF \E i \in DOMAIN cfg.materials : cfg.materials[i].id = id
    THEN CHOOSE i \in DOMAIN cfg.materials :
           /\ cfg.materials[i].id = id
           /\ \A j \in 1 .. (i - 1) : cfg.materials[j].id # id
    ELSE 0

\* AvailableNoise without the filter on baseMaterial.
AvailableNoiseUnfiltered(cfg, id) == cfg.noise

\* config.noise.filter((noise) => noise.baseMaterial === selectedMaterial)
AvailableNoise(cfg, id) ==
  SelectSeq(cfg.noise, LAMBDA noise : noise.baseMaterial = id)

\* The condition under which Math.random() is called at all.
RollsNoise(cfg, id) ==
  /\ FindMaterial(cfg, id) # 0
  /\ Len(AvailableNoise(cfg, id)) > 0
  /\ cfg.materials[FindMaterial(cfg, id)].noiseProbability > 0

\* The rolls a newly painted tile can consume: none when the condition
\* fails, and no second Math.random() when the first is not below the
\* probability.
RollsFor(cfg, id) ==
  IF RollsNoise(cfg, id)
    THEN {roll \in Rolls :
            roll[1] >= cfg.materials[FindMaterial(cfg, id)].noiseProbability
              => roll[2] = 0}
    ELSE {NoRoll}

\* RolledNoiseIds with the probability test written as <= and without the
\* guard on a zero probability.
RolledNoiseIdsInclusive(cfg, id, roll) ==
  IF /\ FindMaterial(cfg, id) # 0
     /\ Len(AvailableNoise(cfg, id)) > 0
     /\ roll[1] <= cfg.materials[FindMaterial(cfg, id)].noiseProbability
    THEN LET availableNoise == AvailableNoise(cfg, id)
             randomIndex == (roll[2] * Len(availableNoise)) \div 100
         IN  << availableNoise[randomIndex + 1].id >>
    ELSE Null

\* noiseIds of a newly painted tile: [selectedNoiseId] or undefined.
RolledNoiseIds(cfg, id, roll) ==
  IF RollsNoise(cfg, id)
       /\ roll[1] < cfg.materials[FindMaterial(cfg, id)].noiseProbability
    THEN LET availableNoise == AvailableNoise(cfg, id)
             randomIndex == (roll[2] * Len(availableNoise)) \div 100
         IN  << availableNoise[randomIndex + 1].id >>
    ELSE Null

NewPaintedTile(cfg, key, id, roll) ==
  [x |-> key[1],
   y |-> key[2],
   materialId |-> id,
   borderTileId |-> Undefined,
   noiseIds |-> RolledNoiseIds(cfg, id, roll)]

\* newMap of paintMultipleTiles before the border pass; rolls maps each key
\* to its roll.  paintTile is the case of one key.
WrittenMap(prev, tileKeys, erasing, id, cfg, rolls) ==
  IF erasing THEN MapDelete(prev, tileKeys)
  ELSE IF id # "" THEN
    MapSetAll(prev, [key \in tileKeys |-> NewPaintedTile(cfg, key, id, rolls[key])])
  ELSE prev

\* Whether paintTile / paintMultipleTiles call setPaintedTiles at all.
Writes(erasing, id) == erasing \/ id # ""

\* paintMultipleTiles with the border pass run on prev, before the writes.
paintMultipleTilesPassFirst(prev, tileKeys, erasing, id, cfg, rolls) ==
  IF Writes(erasing, id)
    THEN WrittenMap(recalculateAllBorders(prev, cfg.borders), tileKeys, erasing, id,
                    cfg, rolls)
    ELSE prev

\* The value the updater of paintMultipleTiles returns.
paintMultipleTiles(prev, tileKeys, erasing, id, cfg, rolls) ==
  IF Writes(erasing, id)
    THEN recalculateAllBorders(WrittenMap(prev, tileKeys, erasing, id, cfg, rolls),
                               cfg.borders)
    ELSE prev

\* The value the updater of paintTile returns.
paintTile(prev, x, y, erasing, id, cfg, roll) ==
  LET key == <<x, y>>
  IN  IF erasing
        THEN recalculateAllBorders(MapDelete(prev, {key}), cfg.borders)
      ELSE IF id # ""
        THEN recalculateAllBorders(
               MapSetAll(prev, [k \in {key} |-> NewPaintedTile(cfg, key, id, roll)]),
               cfg.borders)
      ELSE prev

\* The updaters writing into prev itself: a history entry that is the same
\* Map object as the live grid takes the write.
HistoryWrittenInPlace(hist, shared, written) ==
  IF shared >= 0 THEN [hist EXCEPT ![shared + 1] = written] ELSE hist

\* const newMap = new Map(prev): the updaters write into a copy, so a
\* history entry that is the same Map object as the live grid (shared >= 0)
\* does not see the write.
HistoryAfterWrite(hist, shared, written) == hist

\* ---------------------------------------------------------------------
\* History.

\* A commit that appends without slicing.
CommitWithoutSlice(hist, index, snapshot) == Append(hist, snapshot)

\* history.slice(0, historyIndex + 1) followed by push(snapshot).
CommitSnapshot(hist, index, snapshot) == Append(Slice(hist, index + 1), snapshot)

\* [...history, snapshot]
AppendSnapshot(hist, snapshot) == Append(hist, snapshot)

\* The Map object of entry `shared` is still in the list after a commit
\* that kept the first `kept` entries.
SharedAfter(shared, kept) == IF shared < kept THEN shared ELSE -1

\* undo() decrementing without its guard.
UndoIndexUnguarded(hist, index) == index - 1

\* What undo() passes to setPaintedTiles and setHistoryIndex.
UndoIndex(hist, index) == IF index > 0 THEN index - 1 ELSE index
UndoTiles(hist, index, tiles) == IF index > 0 THEN At(hist, index - 1) ELSE tiles

\* redo() with the guard historyIndex < history.length.
RedoIndexOffByOne(hist, index) == IF index < Len(hist) THEN index + 1 ELSE index

\* What redo() passes to setPaintedTiles and setHistoryIndex.
RedoIndex(hist, index) == IF index < Len(hist) - 1 THEN index + 1 ELSE index
RedoTiles(hist, index, tiles) ==
  IF index < Len(hist) - 1 THEN At(hist, index + 1) ELSE tiles

\* ---------------------------------------------------------------------
\* Map documents (the parsed JSON handed to reader.onload).

\* The grid the component starts with (20 x 15 in the source), scaled down
\* to one row of GridWidth tiles.
DefaultGrid == [width |-> GridWidth, height |-> 1]

\* The terrain configuration is explored on a grid one tile narrower and
\* with a history one snapshot shorter than the plain one.
TerrainGrid == [width |-> GridWidth - 1, height |-> 1]

HistoryLimit(cfg) == IF cfg = CfgTerrain THEN MaxHistory - 1 ELSE MaxHistory

PlainTile(x, y) ==
  [x |-> x, y |-> y, materialId |-> "grass",
   borderTileId |-> Undefined, noiseIds |-> Null]

\* A document of the terrain configuration whose only tile carries the id
\* of the border rule although no water lies east of it: a map saved while
\* the rule list was different, or written by another program.
StaleBorderDocument ==
  [configId |-> "terrain", gridConfig |-> TerrainGrid, tilesIsArray |-> TRUE,
   tiles |-> << [key |-> <<0, 0>>,
                 tile |-> [x |-> 0, y |-> 0, materialId |-> "grass",
                           borderTileId |-> "E1", noiseIds |-> Null]] >>]

\* tilesIsArray = FALSE stands for a document whose tiles field is missing,
\* on which mapData.tiles.forEach throws.
MapDocuments ==
  { [configId |-> "plain", gridConfig |-> DefaultGrid, tilesIsArray |-> TRUE,
     tiles |-> << [key |-> <<0, 0>>, tile |-> PlainTile(0, 0)] >>],
    [configId |-> "plain", gridConfig |-> DefaultGrid, tilesIsArray |-> TRUE,
     tiles |-> << >>],
    [configId |-> "plain", gridConfig |-> DefaultGrid, tilesIsArray |-> FALSE,
     tiles |-> << >>],
    [configId |-> "other", gridConfig |-> DefaultGrid, tilesIsArray |-> TRUE,
     tiles |-> << [key |-> <<0, 0>>, tile |-> PlainTile(0, 0)] >>],
    StaleBorderDocument }

\* A tile object as the painter reads it: a property the parsed JSON
\* object does not have reads as undefined.
TileOfJson(object) ==
  [x |-> object.x,
   y |-> object.y,
   materialId |-> object.materialId,
   borderTileId |-> IF "borderTileId" \in DOMAIN object
                      THEN object.borderTileId ELSE Undefined,
   noiseIds |-> IF "noiseIds" \in DOMAIN object THEN object.noiseIds ELSE Null]

\* restoredTiles after mapData.tiles.forEach(... restoredTiles.set(key, tile)).
RECURSIVE RestoredTiles(_, _)
RestoredTiles(tiles, restored) ==
  IF tiles = << >> THEN restored
  ELSE RestoredTiles(Tail(tiles),
                     MapSetAll(restored,
                               [k \in {Head(tiles).key} |->
                                  TileOfJson(Head(tiles).tile)]))

\* JsonTile that writes the base properties only.
JsonTileBaseOnly(tile) ==
  [property \in {"x", "y", "materialId"} |-> tile[property]]

\* A tile after JSON.stringify and JSON.parse: a property whose value is
\* undefined is left out of the text and is absent from the parsed object.
JsonTile(tile) ==
  [property \in {"x", "y", "materialId"}
                 \cup (IF tile.borderTileId # Undefined THEN {"borderTileId"} ELSE {})
                 \cup (IF tile.noiseIds # Null THEN {"noiseIds"} ELSE {})
     |-> tile[property]]

\* Array.from(paintedTiles.entries()).map(([key, tile]) => ({key, tile})),
\* listed by ascending key.
RECURSIVE Entries(_, _)
Entries(tiles, keys) ==
  IF keys = {} THEN << >>
  ELSE LET key == CHOOSE k \in keys :
                    \A other \in keys :
                       k[1] < other[1] \/ (k[1] = other[1] /\ k[2] <= other[2])
       IN  << [key |-> key, tile |-> JsonTile(tiles[key])] >>
             \o Entries(tiles, keys \ {key})

\* The document saveMap writes, as JSON.parse gives it back.
saveMap(tiles, gc, cfg) ==
  [configId |-> cfg.id,
   gridConfig |-> gc,
   tilesIsArray |-> TRUE,
   tiles |-> Entries(tiles, DOMAIN tiles)]

\* ---------------------------------------------------------------------
\* State machine.

\* Tile coordinates a pointer event can map to: the grid and one tile beyond
\* it on every side.
PointerPositions ==
  (-1 .. DefaultGrid.width) \X (-1 .. DefaultGrid.height)

Init ==
  /\ config = CfgPlain
  /\ gridConfig = DefaultGrid
  /\ paintedTiles = EmptyMap
  /\ selectedMaterial = (IF Len(config.materials) > 0 THEN config.materials[1].id ELSE "")
  /\ isPainting = FALSE
  /\ isErasing = FALSE
  /\ currentTool = "brush"
  /\ drawingStart = Null
  /\ previewTiles = {}
  /\ history = << EmptyMap >>
  /\ historyIndex = 0
  /\ sharedAt = -1
  /\ gestureStart = << >>

\* The same component mounted with the terrain configuration.
InitTerrain ==
  /\ config = CfgTerrain
  /\ gridConfig = TerrainGrid
  /\ paintedTiles = EmptyMap
  /\ selectedMaterial = (IF Len(config.materials) > 0 THEN config.materials[1].id ELSE "")
  /\ isPainting = FALSE
  /\ isErasing = FALSE
  /\ currentTool = "brush"
  /\ drawingStart = Null
  /\ previewTiles = {}
  /\ history = << EmptyMap >>
  /\ historyIndex = 0
  /\ sharedAt = -1
  /\ gestureStart = << >>

\* The buttons of the side panel (tools, materials, eraser, undo, redo,
\* clear, load) lie outside the canvas: the pointer reaches them only after
\* onMouseLeave has ended a gesture, hence their guard ~isPainting.

\* The tool buttons.
setCurrentTool(tool) ==
  /\ ~isPainting
  /\ currentTool' = tool
  /\ isErasing' = FALSE
  /\ previewTiles' = {}
  /\ UNCHANGED <<config, gridConfig, paintedTiles, selectedMaterial, isPainting,
                 drawingStart, history, historyIndex, sharedAt, gestureStart>>

\* A material button.
setSelectedMaterial(id) ==
  /\ ~isPainting
  /\ selectedMaterial' = id
  /\ isErasing' = FALSE
  /\ previewTiles' = {}
  /\ UNCHANGED <<config, gridConfig, paintedTiles, isPainting, currentTool,
                 drawingStart, history, historyIndex, sharedAt, gestureStart>>

\* The eraser button.
toggleErasing ==
  /\ ~isPainting
  /\ isErasing' = ~isErasing
  /\ previewTiles' = {}
  /\ UNCHANGED <<config, gridConfig, paintedTiles, selectedMaterial, isPainting,
                 currentTool, drawingStart, history, historyIndex, sharedAt,
                 gestureStart>>

\* paintTile called from a handler: the live grid after the queued updater
\* ran, and the bookkeeping of Map identity.
PaintOne(p, roll) ==
  /\ paintedTiles' = paintTile(paintedTiles, p[1], p[2], isErasing,
                               selectedMaterial, config, roll)
  /\ history' = HistoryAfterWrite(history, sharedAt,
                   WrittenMap(paintedTiles, {p}, isErasing, selectedMaterial,
                              config, [key \in {p} |-> roll]))
  /\ sharedAt' = IF Writes(isErasing, selectedMaterial) THEN -1 ELSE sharedAt

\* A gesture is started only while its commit fits in the history limit.
handleMouseDown(pos) ==
  LET p == getTilePosition(pos, gridConfig)
  IN  IF p = Null THEN UNCHANGED vars
      ELSE
        /\ currentTool # "fill" => historyIndex + 2 <= HistoryLimit(config)
        /\ isPainting' = (currentTool # "fill")
        /\ gestureStart' = IF currentTool = "fill" THEN << >>
                           ELSE IF isPainting THEN gestureStart
                           ELSE << paintedTiles >>
        /\ CASE currentTool = "brush" ->
                  /\ \E roll \in RollsFor(config, selectedMaterial) : PaintOne(p, roll)
                  /\ UNCHANGED <<drawingStart, previewTiles>>
             [] currentTool \in {"rectangle", "circle"} ->
                  /\ drawingStart' = p
                  /\ previewTiles' = {p}
                  /\ UNCHANGED <<paintedTiles, history, sharedAt>>
             [] currentTool = "fill" ->
                  LET fillTiles == SeqToSet(getFloodFillTiles(p[1], p[2],
                                                 paintedTiles, gridConfig))
                  IN  /\ \E rolls \in [fillTiles -> RollsFor(config, selectedMaterial)] :
                           /\ paintedTiles' =
                                paintMultipleTiles(paintedTiles, fillTiles, isErasing,
                                                   selectedMaterial, config, rolls)
                           /\ history' = HistoryAfterWrite(history, sharedAt,
                                            WrittenMap(paintedTiles, fillTiles, isErasing,
                                                       selectedMaterial, config, rolls))
                      /\ sharedAt' = IF Writes(isErasing, selectedMaterial)
                                       THEN -1 ELSE sharedAt
                      /\ UNCHANGED <<drawingStart, previewTiles>>
        /\ UNCHANGED <<config, gridConfig, selectedMaterial, isErasing,
                       currentTool, historyIndex>>

\* handleMouseMove that paints the rectangle or circle while it is dragged.
handleMouseMovePainting(pos) ==
  LET p == getTilePosition(pos, gridConfig)
  IN  IF ~isPainting \/ p = Null THEN UNCHANGED vars
      ELSE
        /\ CASE currentTool = "brush" ->
                  /\ \E roll \in RollsFor(config, selectedMaterial) : PaintOne(p, roll)
                  /\ UNCHANGED previewTiles
             [] currentTool \in {"rectangle", "circle"} ->
                  /\ previewTiles' =
                       IF drawingStart = Null THEN previewTiles
                       ELSE IF currentTool = "rectangle"
                         THEN SeqToSet(getRectangleTiles(drawingStart, p, gridConfig))
                       ELSE SeqToSet(getCircleTiles(drawingStart,
                                (p[1] - drawingStart[1]) * (p[1] - drawingStart[1])
                                  + (p[2] - drawingStart[2]) * (p[2] - drawingStart[2]),
                                gridConfig))
                  /\ \E rolls \in [previewTiles' -> RollsFor(config, selectedMaterial)] :
                       paintedTiles' = paintMultipleTiles(paintedTiles, previewTiles',
                                         isErasing, selectedMaterial, config, rolls)
                  /\ UNCHANGED <<history, sharedAt>>
             [] currentTool = "fill" ->
                  UNCHANGED <<paintedTiles, history, sharedAt, previewTiles>>
        /\ UNCHANGED <<config, gridConfig, selectedMaterial, isPainting, isErasing,
                       currentTool, drawingStart, historyIndex, gestureStart>>

handleMouseMove(pos) ==
  LET p == getTilePosition(pos, gridConfig)
  IN  IF ~isPainting \/ p = Null THEN UNCHANGED vars
      ELSE
        /\ CASE currentTool = "brush" ->
                  /\ \E roll \in RollsFor(config, selectedMaterial) : PaintOne(p, roll)
                  /\ UNCHANGED previewTiles
             [] currentTool = "rectangle" ->
                  /\ previewTiles' = IF drawingStart # Null
                                       THEN SeqToSet(getRectangleTiles(drawingStart, p,
                                                                       gridConfig))
                                       ELSE previewTiles
                  /\ UNCHANGED <<paintedTiles, history, sharedAt>>
             [] currentTool = "circle" ->
                  /\ previewTiles' =
                       IF drawingStart # Null
                         THEN SeqToSet(getCircleTiles(drawingStart,
                                (p[1] - drawingStart[1]) * (p[1] - drawingStart[1])
                                  + (p[2] - drawingStart[2]) * (p[2] - drawingStart[2]),
                                gridConfig))
                         ELSE previewTiles
                  /\ UNCHANGED <<paintedTiles, history, sharedAt>>
             [] currentTool = "fill" ->
                  UNCHANGED <<paintedTiles, history, sharedAt, previewTiles>>
        /\ UNCHANGED <<config, gridConfig, selectedMaterial, isPainting, isErasing,
                       currentTool, drawingStart, historyIndex, gestureStart>>

\* The body of handleMouseUp.  leaving is TRUE when it runs inside the
\* onMouseLeave handler, which then calls setPreviewTiles(new Set()).
\* new Map(paintedTiles) copies the grid of the current render: an update
\* queued by paintMultipleTiles in the same handler is not in it.
MouseUpBody(leaving) ==
  IF ~isPainting
    THEN /\ previewTiles' = IF leaving THEN {} ELSE previewTiles
         /\ UNCHANGED <<config, gridConfig, paintedTiles, selectedMaterial,
                        isPainting, isErasing, currentTool, drawingStart, history,
                        historyIndex, sharedAt, gestureStart>>
    ELSE
      /\ isPainting' = FALSE
      /\ gestureStart' = << >>
      /\ CASE currentTool \in {"brush", "fill"} ->
                /\ history' = CommitSnapshot(history, historyIndex, paintedTiles)
                /\ historyIndex' = Len(history') - 1
                /\ sharedAt' = SharedAfter(sharedAt, historyIndex + 1)
                /\ previewTiles' = IF leaving THEN {} ELSE previewTiles
                /\ UNCHANGED <<paintedTiles, drawingStart>>
           [] currentTool \in {"rectangle", "circle"} ->
                /\ IF previewTiles # {}
                     THEN /\ \E rolls \in [previewTiles -> RollsFor(config, selectedMaterial)] :
                               paintedTiles' =
                                 paintMultipleTiles(paintedTiles, previewTiles, isErasing,
                                                    selectedMaterial, config, rolls)
                          /\ history' = CommitSnapshot(history, historyIndex, paintedTiles)
                          /\ historyIndex' = Len(history') - 1
                          /\ sharedAt' = IF Writes(isErasing, selectedMaterial)
                                           THEN -1
                                           ELSE SharedAfter(sharedAt, historyIndex + 1)
                     ELSE UNCHANGED <<paintedTiles, history, historyIndex, sharedAt>>
                /\ previewTiles' = {}
                /\ drawingStart' = Null
      /\ UNCHANGED <<config, gridConfig, selectedMaterial, isErasing, currentTool>>

handleMouseUp == MouseUpBody(FALSE)

onMouseLeave == MouseUpBody(TRUE)

clearCanvas ==
  /\ ~isPainting
  /\ Len(history) + 1 <= HistoryLimit(config)
  /\ paintedTiles' = EmptyMap
  /\ history' = AppendSnapshot(history, EmptyMap)
  /\ historyIndex' = Len(history') - 1
  /\ sharedAt' = -1
  /\ UNCHANGED <<config, gridConfig, selectedMaterial, isPainting, isErasing,
                 currentTool, drawingStart, previewTiles, gestureStart>>

undo ==
  /\ ~isPainting
  /\ historyIndex' = UndoIndex(history, historyIndex)
  /\ paintedTiles' = UndoTiles(history, historyIndex, paintedTiles)
  /\ sharedAt' = IF historyIndex > 0 THEN -1 ELSE sharedAt
  /\ UNCHANGED <<config, gridConfig, selectedMaterial, isPainting, isErasing,
                 currentTool, drawingStart, previewTiles, history, gestureStart>>

redo ==
  /\ ~isPainting
  /\ historyIndex' = RedoIndex(history, historyIndex)
  /\ paintedTiles' = RedoTiles(history, historyIndex, paintedTiles)
  /\ sharedAt' = IF historyIndex < Len(history) - 1 THEN -1 ELSE sharedAt
  /\ UNCHANGED <<config, gridConfig, selectedMaterial, isPainting, isErasing,
                 currentTool, drawingStart, previewTiles, history, gestureStart>>

\* loadMap without the comparison of mapData.configId with config.id.
loadMapUnchecked(mapData) ==
  /\ ~isPainting
  /\ IF ~mapData.tilesIsArray
       THEN /\ gridConfig' = mapData.gridConfig
            /\ UNCHANGED <<config, paintedTiles, selectedMaterial, isPainting,
                           isErasing, currentTool, drawingStart, previewTiles,
                           history, historyIndex, sharedAt, gestureStart>>
     ELSE /\ Len(history) + 1 <= HistoryLimit(config)
          /\ gridConfig' = mapData.gridConfig
          /\ paintedTiles' = RestoredTiles(mapData.tiles, EmptyMap)
          /\ history' = AppendSnapshot(history, paintedTiles')
          /\ historyIndex' = Len(history') - 1
          /\ sharedAt' = Len(history') - 1
          /\ UNCHANGED <<config, selectedMaterial, isPainting, isErasing,
                         currentTool, drawingStart, previewTiles, gestureStart>>

\* reader.onload of loadMap, run to completion on one document.  The file
\* dialog is modal and the handler is modelled at the moment it was set up,
\* so the history it appends to is the current one.
loadMap(mapData) ==
  /\ ~isPainting
  /\ IF mapData.configId # config.id
       THEN UNCHANGED vars
     ELSE IF ~mapData.tilesIsArray
       THEN /\ gridConfig' = mapData.gridConfig
            /\ UNCHANGED <<config, paintedTiles, selectedMaterial, isPainting,
                           isErasing, currentTool, drawingStart, previewTiles,
                           history, historyIndex, sharedAt, gestureStart>>
     ELSE /\ Len(history) + 1 <= HistoryLimit(config)
          /\ gridConfig' = mapData.gridConfig
          /\ paintedTiles' = RestoredTiles(mapData.tiles, EmptyMap)
          /\ history' = AppendSnapshot(history, paintedTiles')
          /\ historyIndex' = Len(history') - 1
          /\ sharedAt' = Len(history') - 1
          /\ UNCHANGED <<config, selectedMaterial, isPainting, isErasing,
                         currentTool, drawingStart, previewTiles, gestureStart>>

\* What can be typed into the width and height inputs, up to the size of
\* the starting grid; 0 stands for every text parseInt turns into 0 or NaN.
\* The min and max attributes of the inputs do not restrict typed text.
WidthInputs == 0 .. DefaultGrid.width

HeightInputs == 0 .. DefaultGrid.height

\* parseInt(e.target.value) || fallback
ParsedSize(value, fallback) == IF value = 0 THEN fallback ELSE value

\* onChange of the width input: setGridConfig only.
setGridWidth(value) ==
  /\ ~isPainting
  /\ gridConfig' = [gridConfig EXCEPT !.width = ParsedSize(value, DefaultGrid.width)]
  /\ UNCHANGED <<config, paintedTiles, selectedMaterial, isPainting, isErasing,
                 currentTool, drawingStart, previewTiles, history, historyIndex,
                 sharedAt, gestureStart>>

\* onChange of the height input: setGridConfig only.
setGridHeight(value) ==
  /\ ~isPainting
  /\ gridConfig' = [gridConfig EXCEPT !.height = ParsedSize(value, DefaultGrid.height)]
  /\ UNCHANGED <<config, paintedTiles, selectedMaterial, isPainting, isErasing,
                 currentTool, drawingStart, previewTiles, history, historyIndex,
                 sharedAt, gestureStart>>

MaterialIds == {config.materials[i].id : i \in DOMAIN config.materials}

Next ==
  \/ \E tool \in PaintingTool : setCurrentTool(tool)
  \/ \E id \in MaterialIds : setSelectedMaterial(id)
  \/ toggleErasing
  \/ \E pos \in PointerPositions : handleMouseDown(pos)
  \/ \E pos \in PointerPositions : handleMouseMove(pos)
  \/ handleMouseUp
  \/ onMouseLeave
  \/ clearCanvas
  \/ undo
  \/ redo
  \/ \E mapData \in MapDocuments : loadMap(mapData)

Spec == Init /\ [][Next]_vars

SpecTerrain == InitTerrain /\ [][Next]_vars

\* The painter together with the grid size inputs.
NextResize ==
  \/ Next
  \/ \E value \in WidthInputs : setGridWidth(value)
  \/ \E value \in HeightInputs : setGridHeight(value)

SpecResize == Init /\ [][NextResize]_vars

\* ---------------------------------------------------------------------
\* The border pass on its own: one grass cell at the centre of a 3 x 3
\* grid, neighbours and rule list drawn from bounded sets.

Centre == <<1, 1>>

NeighbourGrid == [width |-> 3, height |-> 3]

MaterialTile(key, materialId) ==
  [x |-> key[1], y |-> key[2], materialId |-> materialId,
   borderTileId |-> Undefined, noiseIds |-> Null]

\* The grid with grass at the centre and around[d] in direction d
\* (Undefined: unpainted); directions outside DOMAIN around are unpainted.
GridAround(around) ==
  LET adjacent == getAdjacentPositions(Centre[1], Centre[2])
      painted == {d \in DOMAIN around : around[d] # Undefined}
  IN  [key \in {Centre} \cup {adjacent[d] : d \in painted} |->
         IF key = Centre THEN MaterialTile(key, "grass")
         ELSE MaterialTile(key,
                around[CHOOSE d \in painted : adjacent[d] = key])]

Position == << "1", "2", "3", "4" >>

\* The rule list made of the given (directions, materialB) choices, all
\* with materialA grass; an id names the choice and its place in the list.
RuleTable(choices) ==
  [i \in DOMAIN choices |->
     [id |-> choices[i][1] \o "/" \o choices[i][2] \o "#" \o Position[i],
      directions |-> choices[i][1],
      materialA |-> "grass",
      materialB |-> choices[i][2]]]

CfgRules(borders) ==
  [id |-> "rules",
   materials |-> << [id |-> "grass", noiseProbability |-> 0],
                    [id |-> "water", noiseProbability |-> 0],
                    [id |-> "sand", noiseProbability |-> 0] >>,
   borders |-> borders,
   noise |-> << >>]

\* Rule lists of up to RuleLen rules against water or sand, for the
\* patterns that can match when only the n, ne, e, se and s neighbours vary
\* (an inward corner, a cardinal and a diagonal corner can match together).
PriorityChoices ==
  {"n", "e", "s", "ne", "se", "inward-ne"} \X {"water", "sand"}

PriorityTables ==
  {RuleTable(choices) :
     choices \in UNION {[1 .. n -> PriorityChoices] : n \in 1 .. RuleLen}}

PriorityGrids ==
  {GridAround(around) :
     around \in [{"n", "ne", "e", "se", "s"} -> {Undefined, "water", "sand"}]}

\* The component state around a grid and a configuration.
InitWith(configs, grids, gc, tool) ==
  /\ config \in configs
  /\ gridConfig = gc
  /\ paintedTiles \in grids
  /\ selectedMaterial = (IF Len(config.materials) > 0 THEN config.materials[1].id ELSE "")
  /\ isPainting = FALSE
  /\ isErasing = FALSE
  /\ currentTool = tool
  /\ drawingStart = Null
  /\ previewTiles = {}
  /\ history = << EmptyMap >>
  /\ historyIndex = 0
  /\ sharedAt = -1
  /\ gestureStart = << >>

InitPriority ==
  InitWith({CfgRules(borders) : borders \in PriorityTables}, PriorityGrids,
           NeighbourGrid, "brush")

\* One call of recalculateAllBorders on the grid.
BorderPass ==
  /\ paintedTiles' = recalculateAllBorders(paintedTiles, config.borders)
  /\ UNCHANGED <<config, gridConfig, selectedMaterial, isPainting, isErasing,
                 currentTool, drawingStart, previewTiles, history, historyIndex,
                 sharedAt, gestureStart>>

SpecPriority == InitPriority /\ [][BorderPass]_vars

\* One rule of any of the twelve patterns, grass against water, and every
\* neighbourhood of grass, water and unpainted cells.
PatternTables ==
  {RuleTable(<< <<directions, "water">> >>) :
     directions \in Cardinals \cup Diagonals \cup Inwards}

PatternGrids ==
  {GridAround(around) :
     around \in [DOMAIN getAdjacentPositions(Centre[1], Centre[2])
                   -> {Undefined, "grass", "water"}]}

InitPattern ==
  InitWith({CfgRules(borders) : borders \in PatternTables}, PatternGrids,
           NeighbourGrid, "brush")

SpecPattern == InitPattern /\ [][BorderPass]_vars

\* ---------------------------------------------------------------------
\* Flood fill on its own: the fill tool clicked on any grid of grass, water
\* and unpainted cells, with grass or water selected.

FloodGrid == [width |-> BoardSize - 1, height |-> BoardSize - 1]

KeysOf(gc) == (0 .. (gc.width - 1)) \X (0 .. (gc.height - 1))

FloodStartGrids ==
  UNION {{[key \in painted |-> MaterialTile(key, materials[key])] :
            materials \in [painted -> {"grass", "water"}]} :
         painted \in SUBSET KeysOf(FloodGrid)}

InitFlood ==
  InitWith({CfgRules(<< >>)}, FloodStartGrids, FloodGrid, "fill")

NextFlood ==
  \/ \E id \in {"grass", "water"} : setSelectedMaterial(id)
  \/ \E pos \in KeysOf(FloodGrid) : handleMouseDown(pos)

SpecFlood == InitFlood /\ [][NextFlood]_vars

\* ---------------------------------------------------------------------
\* The painter on the terrain configuration with a grid of two columns,
\* together with the loading of a document of that size whose only tile
\* carries the id of the border rule with no water east of it.

StaleBorderWideDocument ==
  [StaleBorderDocument EXCEPT !.gridConfig = DefaultGrid]

NextErase ==
  \/ Next
  \/ loadMap(StaleBorderWideDocument)

SpecErase ==
  InitWith({CfgTerrain}, {EmptyMap}, DefaultGrid, "brush") /\ [][NextErase]_vars

\* ---------------------------------------------------------------------
\* The pointer handlers on their own: presses, moves, releases and leaves
\* at every pointer position, inside the grid and one tile outside it on
\* each side, with any tool and the eraser.

NextPointer ==
  \/ \E tool \in PaintingTool : setCurrentTool(tool)
  \/ toggleErasing
  \/ \E pos \in PointerPositions : handleMouseDown(pos)
  \/ \E pos \in PointerPositions : handleMouseMove(pos)
  \/ handleMouseUp
  \/ onMouseLeave

SpecPointer == Init /\ [][NextPointer]_vars

\* ---------------------------------------------------------------------
\* Single brush presses on a two-row grid: every fully painted grid of
\* grass and water with its borders resolved, under one rule of any of the
\* twelve patterns; the material and the eraser are chosen, then one cell
\* is pressed.

LocalGrid == [width |-> BoardSize, height |-> 2]

\* The grid of the given materials after a border pass.
ResolvedGrid(materials, borders) ==
  recalculateAllBorders([key \in DOMAIN materials |-> MaterialTile(key, materials[key])],
                        borders)

InitLocal ==
  /\ config \in {CfgRules(borders) : borders \in PatternTables}
  /\ gridConfig = LocalGrid
  /\ \E materials \in [KeysOf(LocalGrid) -> {"grass", "water"}] :
        paintedTiles = ResolvedGrid(materials, config.borders)
  /\ selectedMaterial = config.materials[1].id
  /\ isPainting = FALSE
  /\ isErasing = FALSE
  /\ currentTool = "brush"
  /\ drawingStart = Null
  /\ previewTiles = {}
  /\ history = << EmptyMap >>
  /\ historyIndex = 0
  /\ sharedAt = -1
  /\ gestureStart = << >>

NextLocal ==
  \/ \E id \in {"grass", "water"} : setSelectedMaterial(id)
  \/ toggleErasing
  \/ \E pos \in KeysOf(LocalGrid) : ~isPainting /\ handleMouseDown(pos)

SpecLocal == InitLocal /\ [][NextLocal]_vars

\* ---------------------------------------------------------------------
\* Batches on a 2 x 2 grid: every grid of grass, water and unpainted cells
\* with its borders resolved, under one rule of any of the twelve patterns,
\* and the fill tool, whose press calls paintMultipleTiles.

BatchGrid == [width |-> 2, height |-> 2]

BatchStartMaterials ==
  UNION {[painted -> {"grass", "water"}] : painted \in SUBSET KeysOf(BatchGrid)}

InitBatch ==
  /\ config \in {CfgRules(borders) : borders \in PatternTables}
  /\ gridConfig = BatchGrid
  /\ \E materials \in BatchStartMaterials :
        paintedTiles = ResolvedGrid(materials, config.borders)
  /\ selectedMaterial = config.materials[1].id
  /\ isPainting = FALSE
  /\ isErasing = FALSE
  /\ currentTool = "fill"
  /\ drawingStart = Null
  /\ previewTiles = {}
  /\ history = << EmptyMap >>
  /\ historyIndex = 0
  /\ sharedAt = -1
  /\ gestureStart = << >>

NextBatch ==
  \/ \E id \in {"grass", "water"} : setSelectedMaterial(id)
  \/ toggleErasing
  \/ \E pos \in KeysOf(BatchGrid) : handleMouseDown(pos)

SpecBatch == InitBatch /\ [][NextBatch]_vars

\* ---------------------------------------------------------------------
\* The rectangle and circle tools on their own: a press and the moves of
\* one drag on an empty square grid.

ShapeGrid == [width |-> BoardSize, height |-> BoardSize]

InitShapes ==
  InitWith({CfgPlain}, {EmptyMap}, ShapeGrid, "rectangle")

NextShapes ==
  \/ \E tool \in {"rectangle", "circle"} : setCurrentTool(tool)
  \/ \E pos \in KeysOf(ShapeGrid) : handleMouseDown(pos)
  \/ \E pos \in KeysOf(ShapeGrid) : handleMouseMove(pos)

SpecShapes == InitShapes /\ [][NextShapes]_vars

\* ---------------------------------------------------------------------
\* Saving and loading on their own: any grid of the terrain configuration,
\* with or without border and noise ids, saved and loaded back.

PersistTiles(key) ==
  {[x |-> key[1], y |-> key[2], materialId |-> "grass",
    borderTileId |-> borderTileId, noiseIds |-> noiseIds] :
     borderTileId \in {Undefined, "E1"}, noiseIds \in {Null, << "flower" >>}}
  \cup
  {[x |-> key[1], y |-> key[2], materialId |-> "water",
    borderTileId |-> borderTileId, noiseIds |-> noiseIds] :
     borderTileId \in {Undefined, "E1"}, noiseIds \in {Null, << "wave" >>}}

PersistGrids ==
  UNION {{grid \in [painted -> UNION {PersistTiles(key) : key \in painted}] :
            \A key \in painted : grid[key] \in PersistTiles(key)} :
         painted \in SUBSET KeysOf(DefaultGrid)}

InitPersist ==
  InitWith({CfgTerrain}, PersistGrids, DefaultGrid, "brush")

\* saveMap, then loadMap on the file it wrote.
NextPersist == loadMap(saveMap(paintedTiles, gridConfig, config))

SpecPersist == InitPersist /\ [][NextPersist]_vars

\* ---------------------------------------------------------------------
\* Properties.

AllKeys == (0 .. (DefaultGrid.width - 1)) \X (0 .. (DefaultGrid.height - 1))

\* A step of a handler that ends a gesture in progress.
ReleaseStep == isPainting /\ (handleMouseUp \/ onMouseLeave)

\* C1: whenever no gesture is in progress and historyIndex > 0, undo()
\* followed by redo() leaves the live grid equal to the live grid before the
\* undo.
UndoRedoRoundTrip ==
  (~isPainting /\ historyIndex > 0) =>
    RedoTiles(history, UndoIndex(history, historyIndex),
              UndoTiles(history, historyIndex, paintedTiles)) = paintedTiles

\* C2: whenever no gesture is in progress, the snapshot at
\* history[historyIndex] equals the live grid.
CurrentSnapshotIsLiveGrid ==
  ~isPainting => At(history, historyIndex) = paintedTiles

\* C3: right after a gesture is committed (release of a brush, rectangle or
\* circle gesture, or clear), one undo() yields the live grid the gesture
\* started from.
UndoRestoresGestureStart ==
  [][/\ ReleaseStep =>
          UndoTiles(history', historyIndex', paintedTiles') = gestureStart[1]
     /\ clearCanvas =>
          UndoTiles(history', historyIndex', paintedTiles') = paintedTiles]_vars

\* A step that commits a snapshot: gesture release, clear, or a map load
\* that was applied.
CommitStep ==
  \/ ReleaseStep
  \/ clearCanvas
  \/ \E mapData \in MapDocuments :
       mapData.configId = config.id /\ mapData.tilesIsArray /\ loadMap(mapData)

\* C4: every step that commits a snapshot keeps history[0..historyIndex],
\* drops what follows, appends one snapshot and points historyIndex at it.
CommitTruncatesFuture ==
  [][CommitStep =>
       /\ Len(history') = historyIndex + 2
       /\ Slice(history', historyIndex + 1) = Slice(history, historyIndex + 1)
       /\ historyIndex' = Len(history') - 1]_vars

\* C5: a press of the fill tool on an in-bounds cell appends one snapshot,
\* the filled grid, after truncation and points historyIndex at it.
FillCommitsOnce ==
  [][(currentTool = "fill" /\ \E pos \in AllKeys : handleMouseDown(pos)) =>
       /\ history' = CommitSnapshot(history, historyIndex, paintedTiles')
       /\ historyIndex' = Len(history') - 1]_vars

\* C6: from press to release a brush, rectangle or circle gesture adds
\* exactly one snapshot: the press and every pointer move leave the history
\* alone, and the step that ends the gesture appends one snapshot to
\* history[0..historyIndex].
OneSnapshotPerGesture ==
  [][\/ isPainting' /\ UNCHANGED <<history, historyIndex>>
     \/ /\ isPainting /\ ~isPainting'
        /\ Len(history') = historyIndex + 2
        /\ Slice(history', historyIndex + 1) = Slice(history, historyIndex + 1)
        /\ historyIndex' = historyIndex + 1
     \/ ~isPainting /\ ~isPainting']_vars

\* Witness of C6: one rectangle gesture over the whole grid took the history
\* from one snapshot to two.
RectangleGestureCommitted ==
  /\ currentTool = "rectangle" /\ ~isPainting /\ ~isErasing
  /\ DOMAIN paintedTiles = AllKeys
  /\ Len(history) = 2 /\ historyIndex = 1
  /\ At(history, 0) = EmptyMap

\* C7: when the pointer leaves the canvas during a rectangle or circle drag
\* the preview is dropped and nothing is committed.
LeaveCancelsPreview ==
  [][(isPainting /\ currentTool \in {"rectangle", "circle"} /\ onMouseLeave) =>
       /\ previewTiles' = {}
       /\ UNCHANGED <<paintedTiles, history, historyIndex>>]_vars

\* C8: the history starts as one empty snapshot at index 0, and it is never
\* empty and historyIndex always points into it.
HistoryIndexInRange ==
  /\ history = << EmptyMap >> /\ historyIndex = 0
  /\ [](Len(history) >= 1 /\ historyIndex >= 0 /\ historyIndex <= Len(history) - 1)

\* Witness of C8: a full history with the index moved back to its start.
FullHistoryAtStart ==
  Len(history) = MaxHistory /\ historyIndex = 0

\* C9: undo() at index 0 and redo() at the last index change neither the
\* live grid nor the history nor historyIndex.
UndoRedoNoOpAtEnds ==
  [][/\ (undo /\ historyIndex = 0) =>
          UNCHANGED <<paintedTiles, history, historyIndex>>
     /\ (redo /\ historyIndex = Len(history) - 1) =>
          UNCHANGED <<paintedTiles, history, historyIndex>>]_vars

\* Witness of C9: idle at the last index of a history with several
\* snapshots, the live grid not empty: redo() has nothing to restore.
IdleAtLastIndex ==
  /\ ~isPainting
  /\ Len(history) > 1 /\ historyIndex = Len(history) - 1
  /\ paintedTiles # EmptyMap

\* C10: a snapshot in the history never changes.  In every step the entries
\* up to historyIndex stay as they are, an entry after historyIndex stays
\* as it is unless it is dropped or is the position of the one new snapshot,
\* and the list changes only by a commit.
SnapshotsImmutable ==
  [][/\ \A i \in 0 .. historyIndex :
          i < Len(history') /\ At(history', i) = At(history, i)
     /\ \A i \in (historyIndex + 1) .. (Len(history) - 1) :
          i < Len(history') - 1 => At(history', i) = At(history, i)
     /\ history' # history =>
          Len(history') >= historyIndex + 2 /\ historyIndex' = Len(history') - 1]_vars

\* Witness of C10: during a brush gesture that started from the committed
\* grid, the live grid has moved on and the snapshot has not.
LiveGridAheadOfSnapshot ==
  /\ isPainting /\ currentTool = "brush"
  /\ Len(history) >= 2
  /\ gestureStart = << At(history, historyIndex) >>
  /\ paintedTiles # At(history, historyIndex)

\* ---------------------------------------------------------------------
\* C11.  In every reachable state each cell's borderTileId is the one the
\* border pass computes from the current grid: it is never stale.
BordersNeverStale ==
  \A key \in DOMAIN paintedTiles :
     paintedTiles[key].borderTileId =
       recalculateAllBorders(paintedTiles, config.borders)[key].borderTileId

\* ---------------------------------------------------------------------
\* C12.  Every painted cell has a coordinate inside the current grid
\* configuration, whatever was painted, undone, redone, resized or loaded.
PaintedCellsInBounds ==
  \A key \in DOMAIN paintedTiles : InBounds(key[1], key[2], gridConfig)

\* ---------------------------------------------------------------------
\* The live grid after undo() followed by redo() in a state with the given
\* history, index and live grid.
AfterUndoRedo(hist, index, tiles) ==
  RedoTiles(hist, UndoIndex(hist, index), UndoTiles(hist, index, tiles))

\* C13.  Undo and redo never change a cell's noise: once a paint gesture is
\* committed, undo() followed by redo() gives every cell of the live grid
\* back with the noiseIds it was painted with.
NoiseSurvivesUndoRedo ==
  [][(ReleaseStep /\ historyIndex' # historyIndex) =>
       LET after == AfterUndoRedo(history', historyIndex', paintedTiles')
       IN  \A key \in DOMAIN paintedTiles' :
             /\ key \in DOMAIN after
             /\ after[key].noiseIds = paintedTiles'[key].noiseIds]_vars

\* ---------------------------------------------------------------------
\* The materials of the configuration whose noiseProbability is 0.
NoiselessMaterials ==
  {config.materials[i].id :
     i \in {j \in DOMAIN config.materials :
              config.materials[j].noiseProbability = 0}}

\* C14.  A material whose noiseProbability is 0 never gets noise: no roll
\* gives a newly painted tile of it a noise id, and every cell of the live
\* grid painted with it (by brush, rectangle, circle or fill) has none,
\* although a noise tile for the material exists.
ZeroProbabilityNoNoise ==
  /\ \A id \in NoiselessMaterials : \A roll \in Rolls :
        RolledNoiseIds(config, id, roll) = Null
  /\ \A key \in DOMAIN paintedTiles :
        paintedTiles[key].materialId \in NoiselessMaterials
          => paintedTiles[key].noiseIds = Null

\* A cell painted with water, for which a noise tile is configured.
WaterPainted ==
  /\ Len(AvailableNoise(config, "water")) > 0
  /\ \E key \in DOMAIN paintedTiles :
        /\ paintedTiles[key].materialId = "water"
        /\ paintedTiles[key].materialId \in NoiselessMaterials

\* ---------------------------------------------------------------------
\* The rules of the list that match the centre cell: materialA is the
\* cell's material and the pattern against materialB holds.
MatchingRules ==
  LET tile == paintedTiles[Centre]
  IN  {i \in DOMAIN config.borders :
         /\ config.borders[i].materialA = tile.materialId
         /\ matchesBorderPattern(Surroundings(paintedTiles, tile), tile.materialId,
                                 config.borders[i].materialB,
                                 config.borders[i].directions)}

\* The priority classes as the specification ranks them.
ClassRank(directions) ==
  CASE directions \in {"n", "e", "s", "w"} -> 4
    [] directions \in {"inward-ne", "inward-se", "inward-sw", "inward-nw"} -> 3
    [] directions \in {"ne", "se", "sw", "nw"} -> 2
    [] OTHER -> 1

ResolvedCentre ==
  recalculateAllBorders(paintedTiles, config.borders)[Centre].borderTileId

\* C15.  The resolver gives the centre cell the id of a matching rule of
\* the highest class among the matching rules, cardinal over inward corner
\* over diagonal corner, and no id when no rule matches; a cardinal rule
\* therefore beats a diagonal-corner rule of the same material pair,
\* whichever comes first in the list.
HighestPriorityWins ==
  IF MatchingRules = {}
    THEN ResolvedCentre = Undefined
    ELSE \E i \in MatchingRules :
           /\ config.borders[i].id = ResolvedCentre
           /\ \A j \in MatchingRules :
                 ClassRank(config.borders[i].directions)
                   >= ClassRank(config.borders[j].directions)

\* A diagonal-corner rule listed before a matching cardinal rule of the
\* same pair, both matching, and the border pass has assigned the
\* cardinal rule.
CardinalBeatsEarlierDiagonal ==
  \E i, j \in MatchingRules :
     /\ i < j
     /\ config.borders[i].directions \in Diagonals
     /\ config.borders[j].directions \in Cardinals
     /\ config.borders[i].materialB = config.borders[j].materialB
     /\ paintedTiles[Centre].borderTileId = config.borders[j].id

\* ---------------------------------------------------------------------
\* Number of the centre cell's N/E/S/W neighbours that have the material.
OrthogonalCount(materialId) ==
  LET sur == Surroundings(paintedTiles, paintedTiles[Centre])
  IN  Cardinality({d \in {"n", "e", "s", "w"} : sur[d] = materialId})

InwardRules ==
  {i \in DOMAIN config.borders :
     config.borders[i].directions
       \in {"inward-ne", "inward-se", "inward-sw", "inward-nw"}}

\* C16.  A cell with fewer than 2 orthogonal neighbours of material B is
\* never assigned an inward-corner rule whose materialB is B.
InwardCornerGuard ==
  \A i \in InwardRules :
     OrthogonalCount(config.borders[i].materialB) < 2
       => ResolvedCentre # config.borders[i].id

\* An inward-corner rule whose diagonal neighbour and one orthogonal
\* neighbour are B, nothing more: the cell has no border.
InwardCornerNearMiss ==
  \E i \in InwardRules :
     LET sur == Surroundings(paintedTiles, paintedTiles[Centre])
         B == config.borders[i].materialB
     IN  /\ config.borders[i].directions = "inward-ne"
         /\ OrthogonalCount(B) = 1
         /\ sur.ne = B
         /\ sur.n = B
         /\ ResolvedCentre = Undefined
         /\ paintedTiles[Centre].borderTileId = Undefined

\* ---------------------------------------------------------------------
\* The grid with the same cells and materials and no border or noise ids.
MaterialsOnly(tilesMap) ==
  [key \in DOMAIN tilesMap |->
     [x |-> tilesMap[key].x, y |-> tilesMap[key].y,
      materialId |-> tilesMap[key].materialId,
      borderTileId |-> Undefined, noiseIds |-> Null]]

FilledSet(pos, tiles) ==
  SeqToSet(getFloodFillTiles(pos[1], pos[2], tiles, gridConfig))

\* The grids a click of the fill tool at pos can leave when it paints the
\* selected material.
AfterFill(pos) ==
  {paintMultipleTiles(paintedTiles, FilledSet(pos, paintedTiles), FALSE,
                      selectedMaterial, config, rolls) :
     rolls \in [FilledSet(pos, paintedTiles)
                  -> RollsFor(config, selectedMaterial)]}

\* C18 as stated.  After flood fill at c has returned F and the cells of F
\* were painted with m, flood fill at c returns exactly F.
FloodFillFixedPoint ==
  \A pos \in KeysOf(gridConfig) : \A after \in AfterFill(pos) :
     FilledSet(pos, after) = FilledSet(pos, paintedTiles)

\* No cell next to the region of pos, outside it, has the selected
\* material already.
NoNeighbourAlreadySelected(pos) ==
  \A key \in FilledSet(pos, paintedTiles) :
     \A adj \in {<<key[1] + 1, key[2]>>, <<key[1] - 1, key[2]>>,
                  <<key[1], key[2] + 1>>, <<key[1], key[2] - 1>>} :
        adj \notin FilledSet(pos, paintedTiles)
          => MaterialAt(paintedTiles, adj) # selectedMaterial

\* C18 amended.  After flood fill at c has returned F and the cells of F
\* were painted with m, flood fill at c returns a set that contains F, and
\* exactly F when no cell orthogonally adjacent to F had material m before.
FloodFillGrowsOnlyIntoSameMaterial ==
  \A pos \in KeysOf(gridConfig) : \A after \in AfterFill(pos) :
     /\ FilledSet(pos, paintedTiles) \subseteq FilledSet(pos, after)
     /\ NoNeighbourAlreadySelected(pos)
          => FilledSet(pos, after) = FilledSet(pos, paintedTiles)

\* A water region of two cells at (0,0) beside a grass cell, water selected.
WaterRegionFilled ==
  /\ selectedMaterial = "water"
  /\ FilledSet(<<0, 0>>, paintedTiles) = {<<0, 0>>, <<0, 1>>}
  /\ MaterialAt(paintedTiles, <<0, 0>>) = "water"
  /\ MaterialAt(paintedTiles, <<1, 0>>) = "grass"

\* ---------------------------------------------------------------------
\* The coordinates between two corners, both included.
Between(a, b) ==
  {k \in KeysOf(gridConfig) :
     /\ Min(a[1], b[1]) <= k[1] /\ k[1] <= Max(a[1], b[1])
     /\ Min(a[2], b[2]) <= k[2] /\ k[2] <= Max(a[2], b[2])}

\* C19.  For the start a of a rectangle drag and every in-bounds b,
\* getRectangleTiles(a, b) and getRectangleTiles(b, a) hold the same
\* coordinates, namely those between a and b, each exactly once; the
\* preview of the drag is such a rectangle.
RectangleSymmetric ==
  (currentTool = "rectangle" /\ drawingStart # Null) =>
    /\ \A b \in KeysOf(gridConfig) :
         LET forward == getRectangleTiles(drawingStart, b, gridConfig)
             backward == getRectangleTiles(b, drawingStart, gridConfig)
         IN  /\ SeqToSet(forward) = Between(drawingStart, b)
             /\ SeqToSet(backward) = Between(drawingStart, b)
             /\ Len(forward) = Cardinality(Between(drawingStart, b))
             /\ Len(backward) = Cardinality(Between(drawingStart, b))
    /\ \E b \in KeysOf(gridConfig) : previewTiles = Between(drawingStart, b)

\* A drag from (1,1) up and left to (0,0): the preview is the 2 x 2 block.
RectangleDraggedBackwards ==
  /\ currentTool = "rectangle"
  /\ drawingStart = <<1, 1>>
  /\ previewTiles = {<<0, 0>>, <<0, 1>>, <<1, 0>>, <<1, 1>>}

\* ---------------------------------------------------------------------
\* C20.  Loading the document saveMap wrote for a grid, under the same
\* tileset id, leaves the live grid equal to that grid (same keys and, per
\* cell, the same x, y, materialId, borderTileId and noiseIds) and the
\* grid configuration the same.
PersistenceRoundTrip ==
  [][/\ paintedTiles' = paintedTiles
     /\ gridConfig' = gridConfig]_vars

\* A loaded grid in which one cell has a border id and a noise id and
\* another has neither.
DecoratedGridLoaded ==
  /\ historyIndex = 1
  /\ sharedAt = 1
  /\ \E key \in DOMAIN paintedTiles :
        /\ paintedTiles[key].borderTileId # Undefined
        /\ paintedTiles[key].noiseIds # Null
  /\ \E key \in DOMAIN paintedTiles :
        /\ paintedTiles[key].borderTileId = Undefined
        /\ paintedTiles[key].noiseIds = Null

\* ---------------------------------------------------------------------
\* C21.  Loading a document whose configId differs from the id of the
\* active tileset leaves the live grid, the grid configuration, the
\* history and historyIndex unchanged.
MismatchedLoadRejected ==
  [][\A mapData \in MapDocuments :
       (mapData.configId # config.id /\ loadMap(mapData))
         => UNCHANGED <<paintedTiles, gridConfig, history, historyIndex>>]_vars

\* A state in which a document of another tileset, holding a grid other
\* than the live one, can be loaded over a committed drawing.
MismatchedDocumentOffered ==
  /\ ~isPainting
  /\ historyIndex > 0
  /\ \E mapData \in MapDocuments :
        /\ mapData.configId # config.id
        /\ mapData.tilesIsArray
        /\ RestoredTiles(mapData.tiles, EmptyMap) # paintedTiles

OutOfBoundsNoOp ==
  [][/\ \A pos \in PointerPositions :
          (~InBounds(pos[1], pos[2], gridConfig)
             /\ (handleMouseDown(pos) \/ handleMouseMove(pos)))
            => UNCHANGED <<paintedTiles, history, historyIndex, isPainting,
                           drawingStart, previewTiles>>
     /\ (~isPainting /\ (handleMouseUp \/ onMouseLeave))
          => UNCHANGED <<paintedTiles, history, historyIndex>>]_vars

\* A brush drag in progress over a painted grid, the pointer free to
\* leave the grid on every side.
DragNextToEdge ==
  /\ isPainting
  /\ currentTool = "brush"
  /\ paintedTiles # EmptyMap
  /\ \E pos \in PointerPositions : pos[1] < 0
  /\ \E pos \in PointerPositions : pos[1] >= gridConfig.width
  /\ \E pos \in PointerPositions : pos[2] < 0
  /\ \E pos \in PointerPositions : pos[2] >= gridConfig.height

\* ---------------------------------------------------------------------
\* The centre cell's surroundings.
CentreSurroundings == Surroundings(paintedTiles, paintedTiles[Centre])

\* Exactly one of the centre's N/E/S/W neighbours has the material.
ExactlyOneOrthogonal(materialId) ==
  \E d \in {"n", "e", "s", "w"} :
     /\ CentreSurroundings[d] = materialId
     /\ \A other \in {"n", "e", "s", "w"} \ {d} :
           CentreSurroundings[other] # materialId

\* C24.  A cardinal rule d against material B matches a cell exactly when
\* exactly one of the cell's N/E/S/W neighbours has B and the neighbour in
\* direction d has B; unpainted neighbours count as not B.
CardinalRuleMatches ==
  \A i \in DOMAIN config.borders :
     LET border == config.borders[i]
     IN  border.directions \in {"n", "e", "s", "w"}
           => (i \in MatchingRules
                 <=> /\ ExactlyOneOrthogonal(border.materialB)
                     /\ CentreSurroundings[border.directions] = border.materialB)

\* The w rule assigned to a cell whose only orthogonal neighbour of B is
\* the western one, with B on a diagonal as well.
WestRuleAssigned ==
  /\ Len(config.borders) = 1
  /\ config.borders[1].directions = "w"
  /\ CentreSurroundings.w = config.borders[1].materialB
  /\ CentreSurroundings.ne = config.borders[1].materialB
  /\ CentreSurroundings.e = "grass"
  /\ CentreSurroundings.n = Undefined
  /\ paintedTiles[Centre].borderTileId = config.borders[1].id

\* C25.  A diagonal-corner rule d against material B matches a cell exactly
\* when the diagonal neighbour d has B and zero or one of the N/E/S/W
\* neighbours has B; it never matches when two or more of them have B.
DiagonalRuleMatches ==
  \A i \in DOMAIN config.borders :
     LET border == config.borders[i]
     IN  border.directions \in {"ne", "se", "sw", "nw"}
           => /\ i \in MatchingRules
                   <=> /\ CentreSurroundings[border.directions] = border.materialB
                       /\ OrthogonalCount(border.materialB) \in {0, 1}
              /\ OrthogonalCount(border.materialB) >= 2 => i \notin MatchingRules

\* The ne rule assigned to a cell whose NE neighbour is B and whose single
\* orthogonal neighbour of B is the southern one.
NorthEastRuleAssigned ==
  /\ Len(config.borders) = 1
  /\ config.borders[1].directions = "ne"
  /\ CentreSurroundings.ne = config.borders[1].materialB
  /\ CentreSurroundings.s = config.borders[1].materialB
  /\ OrthogonalCount(config.borders[1].materialB) = 1
  /\ paintedTiles[Centre].borderTileId = config.borders[1].id

\* The three neighbours an inward-corner rule tests, as the specification
\* lists them.
InwardTriple ==
  [p \in {"inward-ne", "inward-se", "inward-sw", "inward-nw"} |->
     CASE p = "inward-ne" -> {"n", "e", "ne"}
       [] p = "inward-se" -> {"s", "e", "se"}
       [] p = "inward-sw" -> {"n", "w", "nw"}
       [] p = "inward-nw" -> {"s", "w", "sw"}]

\* C26.  An inward-corner rule against material B matches a cell exactly
\* when at least two of the N/E/S/W neighbours have B and the three
\* neighbours of its triple all have B: inward-ne N, E, NE; inward-se S, E,
\* SE; inward-sw N, W, NW; inward-nw S, W, SW.
InwardRuleMatches ==
  \A i \in InwardRules :
     LET border == config.borders[i]
     IN  i \in MatchingRules
           <=> /\ OrthogonalCount(border.materialB) >= 2
               /\ \A d \in InwardTriple[border.directions] :
                     CentreSurroundings[d] = border.materialB

\* The inward-sw rule assigned to a cell with B to the north, west and
\* north-west and no B to the south or south-west.
InwardSouthWestAssigned ==
  /\ Len(config.borders) = 1
  /\ config.borders[1].directions = "inward-sw"
  /\ \A d \in {"n", "w", "nw"} : CentreSurroundings[d] = config.borders[1].materialB
  /\ \A d \in {"s", "sw"} : CentreSurroundings[d] # config.borders[1].materialB
  /\ paintedTiles[Centre].borderTileId = config.borders[1].id

\* ---------------------------------------------------------------------
\* The matching rules of the highest class among the matching rules.
TopMatchingRules ==
  {i \in MatchingRules :
     \A j \in MatchingRules :
        ClassRank(config.borders[i].directions)
          >= ClassRank(config.borders[j].directions)}

\* C27.  When several matching rules share the highest priority for a
\* cell, the resolver assigns the id of the one that occurs first in the
\* rule list.
FirstOfHighestWins ==
  TopMatchingRules # {}
    => \E i \in TopMatchingRules :
          /\ \A j \in TopMatchingRules : i <= j
          /\ ResolvedCentre = config.borders[i].id
          /\ \A j \in TopMatchingRules \ {i} :
                ResolvedCentre # config.borders[j].id

\* Two cardinal rules against different partner materials both match and
\* the border pass has assigned the first.
TiedCardinalsFirstAssigned ==
  \E i, j \in TopMatchingRules :
     /\ i < j
     /\ config.borders[i].directions \in Cardinals
     /\ config.borders[j].directions \in Cardinals
     /\ config.borders[i].materialB # config.borders[j].materialB
     /\ paintedTiles[Centre].borderTileId = config.borders[i].id

\* ---------------------------------------------------------------------
\* The border id of a tile comes from a rule whose materialA is the tile's
\* material.
BorderFromOwnRule(tile) ==
  tile.borderTileId # Undefined
    => \E i \in DOMAIN config.borders :
          /\ config.borders[i].id = tile.borderTileId
          /\ config.borders[i].materialA = tile.materialId

\* C28.  A cell receives a borderTileId only from a rule whose materialA
\* equals the cell's own material; a cell whose material appears in no
\* rule's materialA has no border, whatever its neighbours are.
BordersOnMaterialAOnly ==
  \A key \in DOMAIN paintedTiles :
     /\ BorderFromOwnRule(paintedTiles[key])
     /\ BorderFromOwnRule(recalculateAllBorders(paintedTiles, config.borders)[key])

\* Grass at the centre with water to the east and the single rule e of
\* grass against water: the centre carries the rule and the water cell,
\* which has a water neighbour to its north, carries none.
GrassSideBordered ==
  /\ Len(config.borders) = 1
  /\ config.borders[1].directions = "e"
  /\ config.borders[1].materialB = "water"
  /\ paintedTiles[Centre].borderTileId = config.borders[1].id
  /\ getAdjacentPositions(Centre[1], Centre[2]).e \in DOMAIN paintedTiles
  /\ paintedTiles[getAdjacentPositions(Centre[1], Centre[2]).e].materialId = "water"
  /\ paintedTiles[getAdjacentPositions(Centre[1], Centre[2]).e].borderTileId = Undefined
  /\ CentreSurroundings.ne = "water"

\* ---------------------------------------------------------------------
\* The cell c and its 8 neighbours.
Around(c) ==
  {key \in (c[1] - 1 .. c[1] + 1) \X (c[2] - 1 .. c[2] + 1) : TRUE}

\* The live grid is what a border pass makes of it.
BordersUpToDate ==
  paintedTiles = recalculateAllBorders(paintedTiles, config.borders)

\* The grid after the write at c with the borders recomputed at c and its
\* 8 neighbours only.
RecomputedAround(c) ==
  LET written == WrittenMap(paintedTiles, {c}, isErasing, selectedMaterial, config,
                            [key \in {c} |-> NoRoll])
      full == recalculateAllBorders(written, config.borders)
  IN  [key \in DOMAIN written |->
         IF key \in Around(c) THEN full[key] ELSE written[key]]

\* C29.  On a grid whose borders are up to date, a single paint or erase at
\* c followed by the full-grid recomputation changes borderTileId only at c
\* and its 8 neighbours: every other cell keeps its borderTileId, and the
\* result is the one of recomputing c and its 8 neighbours only.
BorderChangesAreLocal ==
  BordersUpToDate
    => \A c \in KeysOf(gridConfig) :
          LET after == paintTile(paintedTiles, c[1], c[2], isErasing,
                                 selectedMaterial, config, NoRoll)
          IN  /\ \A key \in DOMAIN paintedTiles \ Around(c) :
                    /\ key \in DOMAIN after
                    /\ after[key].borderTileId = paintedTiles[key].borderTileId
              /\ after = RecomputedAround(c)

\* A press has changed the material of one cell and with it the border of
\* a neighbour, while a cell two columns away keeps the border it had.
NeighbourBorderChangedFarKept ==
  /\ isPainting
  /\ BordersUpToDate
  /\ \E c \in KeysOf(gridConfig) :
        /\ paintedTiles = paintTile(gestureStart[1], c[1], c[2], isErasing,
                                    selectedMaterial, config, NoRoll)
        /\ gestureStart[1][c].materialId # selectedMaterial
        /\ \E key \in Around(c) \cap DOMAIN paintedTiles :
              /\ key # c
              /\ paintedTiles[key].borderTileId # gestureStart[1][key].borderTileId
        /\ \E key \in DOMAIN paintedTiles \ Around(c) :
              /\ paintedTiles[key].borderTileId # Undefined
              /\ paintedTiles[key].borderTileId = gestureStart[1][key].borderTileId

\* ---------------------------------------------------------------------
\* The orders in which the coordinates of S can be painted one at a time.
Orders(S) ==
  {order \in [1 .. Cardinality(S) -> S] :
     \A i, j \in 1 .. Cardinality(S) : order[i] = order[j] => i = j}

\* paintTile called for order[i], order[i + 1], ... on tiles, with the
\* selected material and eraser of the state.
RECURSIVE PaintInOrder(_, _, _)
PaintInOrder(tiles, order, i) ==
  IF i > Len(order) THEN tiles
  ELSE PaintInOrder(paintTile(tiles, order[i][1], order[i][2], isErasing,
                              selectedMaterial, config, NoRoll),
                    order, i + 1)

\* paintMultipleTiles called once for S on tiles.
PaintBatch(tiles, S) ==
  paintMultipleTiles(tiles, S, isErasing, selectedMaterial, config,
                     [key \in S |-> NoRoll])

\* Key set, materialId and borderTileId of a grid.
MaterialsAndBorders(tiles) ==
  [key \in DOMAIN tiles |->
     [materialId |-> tiles[key].materialId,
      borderTileId |-> tiles[key].borderTileId]]

\* The grid with every border id replaced by one no rule has.
WithForeignBorders(tiles) ==
  [key \in DOMAIN tiles |-> [tiles[key] EXCEPT !.borderTileId = "foreign"]]

\* C30.  For any grid, any non-empty coordinate set S and the selected
\* material (or the eraser), paintMultipleTiles(S) yields the same key set,
\* the same materialId and the same borderTileId on every cell as painting
\* the coordinates of S one at a time with paintTile, in any order.
BatchEqualsOneByOne ==
  \A tiles \in {paintedTiles, WithForeignBorders(paintedTiles)} :
     \A S \in SUBSET KeysOf(gridConfig) \ {{}} :
        \A order \in Orders(S) :
           MaterialsAndBorders(PaintInOrder(tiles, order, 1))
             = MaterialsAndBorders(PaintBatch(tiles, S))

\* Water selected on a grid that is what painting a set of two or more
\* cells in one batch leaves, with a bordered grass cell next to it; the
\* two orders of painting a pair of cells pass through different grids.
BatchOfWaterPainted ==
  /\ ~isErasing
  /\ selectedMaterial = "water"
  /\ \E key \in DOMAIN paintedTiles :
        /\ paintedTiles[key].materialId = "grass"
        /\ paintedTiles[key].borderTileId # Undefined
  /\ \E S \in SUBSET KeysOf(gridConfig) :
        /\ Cardinality(S) >= 2
        /\ paintedTiles = PaintBatch(paintedTiles, S)
  /\ \E a, b \in KeysOf(gridConfig) :
        /\ a # b
        /\ MaterialsAndBorders(paintTile(paintedTiles, a[1], a[2], isErasing,
                                          selectedMaterial, config, NoRoll))
             # MaterialsAndBorders(paintTile(paintedTiles, b[1], b[2], isErasing,
                                             selectedMaterial, config, NoRoll))
        /\ PaintBatch(paintedTiles, {a, b}) # paintedTiles

\* ---------------------------------------------------------------------
\* The cells of a grid that lie inside the bounds gc.
CellsInside(tiles, gc) ==
  [key \in {k \in DOMAIN tiles : InBounds(k[1], k[2], gc)} |-> tiles[key]]

\* C31.  Changing the grid width or height removes from the live grid
\* exactly the painted cells outside the new bounds and leaves the border
\* pass of the remaining cells as the live grid.
ResizeDropsOutsideCells ==
  [][(\/ \E value \in WidthInputs : setGridWidth(value)
      \/ \E value \in HeightInputs : setGridHeight(value))
       => paintedTiles' = recalculateAllBorders(CellsInside(paintedTiles, gridConfig'),
                                               config.borders)]_vars

\* ---------------------------------------------------------------------
\* before and after have the same x, y, materialId and noiseIds on the
\* cells of after.
KeepsMaterialAndNoise(before, after) ==
  \A key \in DOMAIN after :
     /\ key \in DOMAIN before
     /\ after[key].x = before[key].x
     /\ after[key].y = before[key].y
     /\ after[key].materialId = before[key].materialId
     /\ after[key].noiseIds = before[key].noiseIds

\* An erase over S took the grid before to the grid after as the claim
\* describes it.
ErasedExactly(before, S, after) ==
  /\ DOMAIN after = DOMAIN before \ S
  /\ KeepsMaterialAndNoise(before, after)
  /\ S \cap DOMAIN before = {} => after = before

\* C32.  An erase, single or bulk, over coordinate set S leaves a grid whose
\* key set is the old key set minus S and whose cells keep their materialId
\* and noiseIds; erasing an unpainted coordinate changes no cell.
EraseRemovesExactlyTargets ==
  /\ \A S \in SUBSET KeysOf(gridConfig) \ {{}} :
        ErasedExactly(paintedTiles, S,
                      paintMultipleTiles(paintedTiles, S, TRUE, selectedMaterial,
                                         config, [key \in S |-> NoRoll]))
  /\ \A c \in KeysOf(gridConfig) :
        ErasedExactly(paintedTiles, {c},
                      paintTile(paintedTiles, c[1], c[2], TRUE, selectedMaterial,
                                config, NoRoll))

\* ---------------------------------------------------------------------
\* Two coordinates one orthogonal step apart.
OrthogonalStep(a, b) ==
  \/ a[1] = b[1] /\ (a[2] = b[2] + 1 \/ a[2] = b[2] - 1)
  \/ a[2] = b[2] /\ (a[1] = b[1] + 1 \/ a[1] = b[1] - 1)

\* The in-bounds coordinates reachable from those reached through
\* orthogonal steps over coordinates of the target material (Undefined:
\* unpainted).
RECURSIVE Reachable(_, _, _)
Reachable(reached, targetMaterial, tiles) ==
  LET more == {key \in KeysOf(gridConfig) \ reached :
                 /\ MaterialAt(tiles, key) = targetMaterial
                 /\ \E r \in reached : OrthogonalStep(key, r)}
  IN  IF more = {} THEN reached
      ELSE Reachable(reached \cup more, targetMaterial, tiles)

\* The 4-connected component of an in-bounds start.
Component(start, tiles) ==
  Reachable({start}, MaterialAt(tiles, start), tiles)

\* C33.  For every in-bounds start, flood fill returns exactly the
\* 4-connected component of the start over coordinates whose material, or
\* emptiness, equals that of the start; it contains the start and lists no
\* coordinate twice.
FloodFillIsComponent ==
  \A pos \in KeysOf(gridConfig) :
     LET tilesToFill == getFloodFillTiles(pos[1], pos[2], paintedTiles, gridConfig)
     IN  /\ SeqToSet(tilesToFill) = Component(pos, paintedTiles)
         /\ pos \in SeqToSet(tilesToFill)
         /\ \A i, j \in DOMAIN tilesToFill : tilesToFill[i] = tilesToFill[j] => i = j

\* Grass at (0,0) and (1,1), water at (1,0) and (0,1): the fill at (0,0)
\* returns (0,0) alone, and a fill has painted the water.
DiagonalGrassNotJoined ==
  /\ MaterialAt(paintedTiles, <<0, 0>>) = "grass"
  /\ MaterialAt(paintedTiles, <<1, 1>>) = "grass"
  /\ MaterialAt(paintedTiles, <<1, 0>>) = "water"
  /\ MaterialAt(paintedTiles, <<0, 1>>) = "water"
  /\ selectedMaterial = "water"
  /\ FilledSet(<<0, 0>>, paintedTiles) = {<<0, 0>>}

\* The observed loop of a fill started at pos.
TraceOf(pos) ==
  FloodTrace(<< pos >>, << >>, 0, MaterialAt(paintedTiles, pos), paintedTiles,
             gridConfig)

\* C34.  For every in-bounds start the loop of flood fill ends with an
\* empty queue after at most 1 + 4 * width * height passes, and marks each
\* in-bounds coordinate visited at most once.
FloodFillTerminates ==
  \A pos \in KeysOf(gridConfig) :
     LET trace == TraceOf(pos)
     IN  /\ \A i, j \in DOMAIN trace.marked : trace.marked[i] = trace.marked[j] => i = j
         /\ \A i \in DOMAIN trace.marked :
               InBounds(trace.marked[i][1], trace.marked[i][2], gridConfig)
         /\ trace.iterations <= 1 + 4 * gridConfig.width * gridConfig.height
         /\ SeqToSet(getFloodFillTiles(pos[1], pos[2], paintedTiles, gridConfig))
               \subseteq SeqToSet(trace.marked)

\* A grid filled with water: the loop started at (0,0) marks every cell and
\* takes more passes than the marked cells and the coordinates outside the
\* grid account for, so it has dequeued a coordinate already marked.
QueueHeldDuplicate ==
  /\ selectedMaterial = "water"
  /\ \A key \in KeysOf(gridConfig) : MaterialAt(paintedTiles, key) = selectedMaterial
  /\ Len(TraceOf(<<0, 0>>).marked) = gridConfig.width * gridConfig.height
  /\ TraceOf(<<0, 0>>).iterations
       > Len(TraceOf(<<0, 0>>).marked) + 2 * (gridConfig.width + gridConfig.height)

\* ---------------------------------------------------------------------
\* Squared distance of two coordinates.
DistanceSq(a, b) ==
  (a[1] - b[1]) * (a[1] - b[1]) + (a[2] - b[2]) * (a[2] - b[2])

\* The in-bounds coordinates within distance r of c.
Disc(c, r) ==
  {k \in KeysOf(gridConfig) : DistanceSq(k, c) <= r * r}

\* C35.  For the centre c of a circle drag and the radius to every
\* in-bounds pointer position, getCircleTiles returns exactly the in-bounds
\* coordinates within distance r of c, r the rounded radius, each once; it
\* contains the centre, and only the centre when r = 0; the preview of the
\* drag is such a disc.
CircleIsRoundedDisc ==
  (currentTool = "circle" /\ drawingStart # Null) =>
    /\ \A b \in KeysOf(gridConfig) :
         LET r == RoundSqrt(DistanceSq(drawingStart, b))
             tiles == getCircleTiles(drawingStart, DistanceSq(drawingStart, b),
                                     gridConfig)
         IN  /\ SeqToSet(tiles) = Disc(drawingStart, r)
             /\ Len(tiles) = Cardinality(Disc(drawingStart, r))
             /\ drawingStart \in SeqToSet(tiles)
             /\ r = 0 => tiles = << drawingStart >>
    /\ \E b \in KeysOf(gridConfig) :
          previewTiles = Disc(drawingStart, RoundSqrt(DistanceSq(drawingStart, b)))

\* A circle dragged from (0,0) to the diagonal neighbour (1,1): the radius
\* 1.41 rounds to 1 and the preview leaves (1,1) out.
CircleDraggedDiagonally ==
  /\ currentTool = "circle"
  /\ drawingStart = <<0, 0>>
  /\ previewTiles = {<<0, 0>>, <<1, 0>>, <<0, 1>>}

\* ---------------------------------------------------------------------
\* The ids of the noise rules whose baseMaterial is the material.
NoiseIdsFor(materialId) ==
  {config.noise[i].id :
     i \in {j \in DOMAIN config.noise : config.noise[j].baseMaterial = materialId}}

\* A tile carries no noise id, or one id of a noise rule of its material.
NoiseFitsMaterial(tile) ==
  tile.noiseIds # Null
    => /\ Len(tile.noiseIds) = 1
       /\ tile.noiseIds[1] \in NoiseIdsFor(tile.materialId)

\* C36.  In every reachable state each cell of the live grid and of every
\* snapshot carries at most one noise id, and that id belongs to a noise
\* rule whose baseMaterial is the cell's materialId; a cell whose material
\* has no noise rule carries none.
NoiseMatchesMaterial ==
  /\ \A key \in DOMAIN paintedTiles : NoiseFitsMaterial(paintedTiles[key])
  /\ \A i \in DOMAIN history :
        \A key \in DOMAIN history[i] : NoiseFitsMaterial(history[i][key])

\* A committed grass cell with the flower overlay, the wave rule of water
\* being the other noise rule of the configuration.
FlowerOnGrassCommitted ==
  /\ ~isPainting
  /\ historyIndex > 0
  /\ \E key \in DOMAIN paintedTiles :
        /\ paintedTiles[key].materialId = "grass"
        /\ paintedTiles[key].noiseIds = << "flower" >>
  /\ \E i \in DOMAIN config.noise : config.noise[i].baseMaterial = "water"

\* ---------------------------------------------------------------------
\* C37.  During one brush drag a cell already painted with the selected
\* material keeps its noise overlay, whatever further pointer events of
\* the drag land on it.
DragKeepsNoiseOfPaintedCells ==
  [][(isPainting /\ isPainting' /\ currentTool = "brush" /\ ~isErasing)
       => \A key \in DOMAIN paintedTiles :
             paintedTiles[key].materialId = selectedMaterial
               => /\ key \in DOMAIN paintedTiles'
                  /\ paintedTiles'[key].noiseIds = paintedTiles[key].noiseIds]_vars

\* ---------------------------------------------------------------------
\* C38.  recalculateAllBorders returns a grid with exactly the coordinate
\* keys of its input and, for every cell, the same x, y, materialId and
\* noiseIds: it changes borderTileId only.
ResolverChangesBordersOnly ==
  LET updatedMap == recalculateAllBorders(paintedTiles, config.borders)
  IN  /\ DOMAIN updatedMap = DOMAIN paintedTiles
      /\ KeepsMaterialAndNoise(paintedTiles, updatedMap)
      /\ \A key \in DOMAIN updatedMap :
            updatedMap[key] =
              [paintedTiles[key] EXCEPT !.borderTileId = updatedMap[key].borderTileId]

\* A grass cell with the flower overlay and a border id the resolver takes
\* away, next to a water cell with the wave overlay.
ResolverClearsBorderKeepsNoise ==
  /\ <<0, 0>> \in DOMAIN paintedTiles
  /\ <<1, 0>> \in DOMAIN paintedTiles
  /\ paintedTiles[<<0, 0>>].noiseIds = << "flower" >>
  /\ paintedTiles[<<1, 0>>].noiseIds = << "wave" >>
  /\ paintedTiles[<<1, 0>>].borderTileId = "E1"
  /\ recalculateAllBorders(paintedTiles, config.borders)[<<1, 0>>].borderTileId
       = Undefined
  /\ recalculateAllBorders(paintedTiles, config.borders)[<<0, 0>>].borderTileId
       = "E1"

\* ---------------------------------------------------------------------
\* The patterns that match the centre cell against material B.
PatternsMatching(B) ==
  {directions \in Cardinals \cup Diagonals \cup Inwards :
     matchesBorderPattern(CentreSurroundings, paintedTiles[Centre].materialId, B,
                          directions)}

\* C39.  For a cell and a single material B, at most one of the four
\* cardinal patterns against B matches, and no inward-corner pattern
\* against B matches when a cardinal or diagonal-corner pattern against B
\* matches.
PatternClassesExclusive ==
  \A B \in MaterialIds :
     /\ \A d1, d2 \in PatternsMatching(B) \cap {"n", "e", "s", "w"} : d1 = d2
     /\ PatternsMatching(B) \cap {"n", "e", "s", "w", "ne", "se", "sw", "nw"} # {}
          => PatternsMatching(B)
               \cap {"inward-ne", "inward-se", "inward-sw", "inward-nw"} = {}

\* Water to the east and north-east only: the e pattern and the ne pattern
\* both match, no inward corner does, and the border pass has assigned the
\* e rule.
CardinalAndDiagonalTogether ==
  /\ PatternsMatching("water") = {"e", "ne"}
  /\ config.borders[1].directions = "e"
  /\ paintedTiles[Centre].borderTileId = config.borders[1].id

\* ---------------------------------------------------------------------
\* C40.  During a rectangle or circle drag, the press and every pointer
\* move change only the preview set, the drag start and the gesture flag:
\* the live grid, the history and historyIndex stay as they are until the
\* release.
PreviewLeavesDocumentAlone ==
  [][(currentTool \in {"rectangle", "circle"} /\ isPainting')
       => UNCHANGED <<paintedTiles, history, historyIndex, config, gridConfig,
                      selectedMaterial, isErasing, currentTool>>]_vars

\* A rectangle dragged over both cells of a grid that holds one painted
\* and committed cell: the preview covers an unpainted cell.
PreviewOverUnpaintedCell ==
  /\ isPainting
  /\ currentTool = "rectangle"
  /\ drawingStart # Null
  /\ Cardinality(previewTiles) = 2
  /\ historyIndex > 0
  /\ paintedTiles # EmptyMap
  /\ \E key \in previewTiles : key \notin DOMAIN paintedTiles

=============================================================================
